---- MODULE Spec2Model ----
(***************************************************************************)
(* A model of pheap-rs: the addressable min-pairing heap of src/src/ph.rs  *)
(* and the graph container and algorithms of src/src/graph.rs.             *)
(*                                                                         *)
(* Heap nodes live in `arena`, a sequence of Inner records; a node's       *)
(* address is its index, and 0 (None) is the absent Option<NonNull<..>>.   *)
(* Box::leak(Box::new(..)) appends a record; dropping Box::from_raw(..)    *)
(* counts in `boxes`.                                                      *)
(***************************************************************************)
EXTENDS Integers, Sequences, FiniteSets, TLC

\* ------------------------------------------------------------------ bounds
MaxNodes == 4
PrioMax == 2
MaxId == 3
MaxWeight == 1
MaxEdges == 3
MaxElmtNodes == 3

Prios == 0..PrioMax
\* Two heaps: the one the caller works on, and a second one that is built by
\* inserts and merged with the first.
Main == 1
Other == 2
HeapIds == {Main, Other}

None == 0

VARIABLES
    arena,      \* Seq of Inner: every node ever allocated, by address
    boxes,      \* Seq of Nat: how many times the Box at address i was dropped
    heap,       \* HeapIds -> PairingHeap [root, len]
    elmts,      \* Seq of HeapElmt.inner: the handle insert2 returned for node i
    issued,     \* history: Seq of keys, the key handle i was issued for
    panicked,   \* an unwrap() or an index panicked: the process is gone
    ins,        \* history: HeapIds -> number of inserts (summed over merges)
    dels,       \* history: HeapIds -> number of delete_min that returned Some
    bag,        \* history: HeapIds -> addresses inserted and not yet returned
    drain,      \* history: HeapIds -> priorities returned since the last other operation
    last,       \* history: the last operation and its result
    recycled,   \* history: Seq of sets, the addresses already freed when node i was
                \* allocated (kept by the runs that use handles of freed nodes)
    script,     \* history: [calls, out], the calls of a scripted run made so far
                \* and what its delete_min calls returned
    graph,      \* SimpleGraph [n_edges, weights]
    run         \* the locals of a running dijkstra or mst_prim call

heapVars == <<arena, boxes, heap, elmts, issued, panicked, ins, dels, bag, drain, last,
              recycled, script>>
graphVars == <<graph, run>>
vars == <<heapVars, graphVars>>

\* ------------------------------------------------------------------ ph.rs
Inner_new(key, prio) ==
    [key |-> key, prio |-> prio, parent |-> None, left |-> None, right |-> None]

PairingHeap_default == [root |-> None, len |-> 0]

meld_lose_children(a, node1, node2) ==
    LET a1 == [a EXCEPT ![node2].parent = node1]
        a2 == [a1 EXCEPT ![node2].right = None]
    IN  [a2 EXCEPT ![node1].left = node2]

\* A variant of meld that leaves node2's parent link as it was.
meld_no_parent(a, node1, node2) ==
    LET a2 == [a EXCEPT ![node2].right = a[node1].left]
    IN  [a2 EXCEPT ![node1].left = node2]

\* ph.rs, meld: node2 becomes the first child of node1.
meld(a, node1, node2) ==
    LET a1 == [a EXCEPT ![node2].parent = node1]
        a2 == [a1 EXCEPT ![node2].right = a1[node1].left]
    IN  [a2 EXCEPT ![node1].left = node2]

merge_nodes_le(a, node1, node2) ==
    IF node1 # None /\ node2 # None
    THEN IF a[node1].prio <= a[node2].prio
         THEN [arena |-> meld(a, node1, node2), root |-> node1]
         ELSE [arena |-> meld(a, node2, node1), root |-> node2]
    ELSE IF node1 # None THEN [arena |-> a, root |-> node1]
    ELSE IF node2 # None THEN [arena |-> a, root |-> node2]
    ELSE [arena |-> a, root |-> node1]

merge_nodes_flipped(a, node1, node2) ==
    IF node1 # None /\ node2 # None
    THEN IF a[node1].prio > a[node2].prio
         THEN [arena |-> meld(a, node1, node2), root |-> node1]
         ELSE [arena |-> meld(a, node2, node1), root |-> node2]
    ELSE IF node1 # None THEN [arena |-> a, root |-> node1]
    ELSE IF node2 # None THEN [arena |-> a, root |-> node2]
    ELSE [arena |-> a, root |-> node1]

\* ph.rs, merge_nodes: the root with the strictly smaller priority wins,
\* otherwise node2 does.
merge_nodes(a, node1, node2) ==
    IF node1 # None /\ node2 # None
    THEN IF a[node1].prio < a[node2].prio
         THEN [arena |-> meld(a, node1, node2), root |-> node1]
         ELSE [arena |-> meld(a, node2, node1), root |-> node2]
    ELSE IF node1 # None THEN [arena |-> a, root |-> node1]
    ELSE IF node2 # None THEN [arena |-> a, root |-> node2]
    ELSE [arena |-> a, root |-> node1]

merge_keep_self(a, self, other) ==
    LET len == self.len + other.len
    IN  [arena |-> a,
         heap |-> [root |-> IF self.root # None THEN self.root ELSE other.root,
                   len |-> len]]

merge_len_self(a, self, other) ==
    LET m == merge_nodes(a, self.root, other.root)
    IN  [arena |-> m.arena, heap |-> [root |-> m.root, len |-> self.len]]

\* ph.rs, merge: both operands are consumed (their roots set to None, so
\* dropping them frees nothing) and a new heap is returned.
merge(a, self, other) ==
    LET len == self.len + other.len
        m == merge_nodes(a, self.root, other.root)
    IN  [arena |-> m.arena, heap |-> [root |-> m.root, len |-> len]]

merge_consumed_keep(self, other) == <<self, other>>

\* ph.rs, merge, `self.root = None; other.root = None;`: the operands as
\* they are when they go out of scope at the end of merge.
merge_consumed(self, other) ==
    <<[self EXCEPT !.root = None], [other EXCEPT !.root = None]>>

\* ph.rs, insert2: allocate, merge with the root, count, hand out the handle.
insert2(a, self, key, prio) ==
    LET node == Len(a) + 1
        a1 == Append(a, Inner_new(key, prio))
        m == merge_nodes(a1, self.root, node)
    IN  [arena |-> m.arena,
         heap |-> [root |-> m.root, len |-> self.len + 1],
         elmt |-> node]

RECURSIVE first_pass_unpaired(_, _, _)
\* A variant of first_pass that queues every child on its own.
first_pass_unpaired(a, targ, tmp_nodes) ==
    IF targ = None THEN [arena |-> a, tmp_nodes |-> tmp_nodes]
    ELSE LET node == targ
             node_next == a[node].right
             a1 == [a EXCEPT ![node].parent = None, ![node].right = None]
         IN  first_pass_unpaired(a1, node_next, Append(tmp_nodes, node))

RECURSIVE first_pass(_, _, _)
\* ph.rs, delete_min, "First pass: left to right".
first_pass(a, targ, tmp_nodes) ==
    IF targ = None THEN [arena |-> a, tmp_nodes |-> tmp_nodes]
    ELSE LET node == targ
             a1 == [a EXCEPT ![node].parent = None]
             right == a1[node].right
             a2 == [a1 EXCEPT ![node].right = None]
             node_next == IF right # None THEN a2[right].right ELSE None
             a3 == IF right # None
                   THEN [a2 EXCEPT ![right].right = None, ![right].parent = None]
                   ELSE a2
             m == merge_nodes(a3, node, right)
         IN  first_pass(m.arena, node_next, Append(tmp_nodes, m.root))

second_pass_lossy(a, node, tmp_nodes) == [arena |-> a, root |-> node]

RECURSIVE second_pass(_, _, _)
\* ph.rs, delete_min, "Second pass: right to left".
second_pass(a, node, tmp_nodes) ==
    IF tmp_nodes = <<>> THEN [arena |-> a, root |-> node]
    ELSE LET node_prev == tmp_nodes[Len(tmp_nodes)]
             m == merge_nodes(a, node, node_prev)
         IN  second_pass(m.arena, m.root, SubSeq(tmp_nodes, 1, Len(tmp_nodes) - 1))

\* ph.rs, delete_min: None on an empty heap; otherwise the root is removed,
\* its children are paired up, and its Box is dropped.
delete_min(a, self) ==
    IF self.root = None
    THEN [arena |-> a, heap |-> self, ret |-> <<>>, box |-> None]
    ELSE LET root == self.root
             targ == a[root].left
             a1 == [a EXCEPT ![root].left = None]
             fp == first_pass(a1, targ, <<>>)
             sp == second_pass(fp.arena, fp.tmp_nodes[Len(fp.tmp_nodes)],
                               SubSeq(fp.tmp_nodes, 1, Len(fp.tmp_nodes) - 1))
         IN  [arena |-> IF targ = None THEN a1 ELSE sp.arena,
              heap |-> [root |-> IF targ = None THEN None ELSE sp.root,
                        len |-> self.len - 1],
              ret |-> <<a[root].key, a[root].prio>>,
              box |-> root]

find_min_child(a, self) ==
    IF self.root = None THEN <<>>
    ELSE IF a[self.root].left # None
    THEN <<a[a[self.root].left].key, a[a[self.root].left].prio>>
    ELSE <<a[self.root].key, a[self.root].prio>>

find_min_default(a, self) ==
    IF self.root = None THEN <<0, 0>> ELSE <<a[self.root].key, a[self.root].prio>>

\* ph.rs, find_min
find_min(a, self) ==
    IF self.root = None THEN <<>> ELSE <<a[self.root].key, a[self.root].prio>>

\* ph.rs, len / is_empty
len(self) == self.len
is_empty(self) == self.len = 0

RECURSIVE drain_all(_, _)
\* tests.rs, delete_min / decrease_prio / update_prio: the heap is emptied by
\* delete_min; the priorities come out in this order.
drain_all(a, self) ==
    LET d == delete_min(a, self)
    IN  IF d.ret = <<>> THEN <<>>
        ELSE <<d.ret[2]>> \o drain_all(d.arena, d.heap)

RECURSIVE pop_until_left(_, _, _)
\* ph.rs, decrease_prio, the inner `while let Some(front) = tmp_nodes.pop_front()`:
\* the next child list to scan is that of the first queued node that has one.
pop_until_left(a, traverse, tmp_nodes) ==
    IF tmp_nodes = <<>> THEN [traverse |-> traverse, tmp_nodes |-> tmp_nodes]
    ELSE LET front == Head(tmp_nodes)
             t == a[front].left
         IN  IF t # None
             THEN [traverse |-> t, tmp_nodes |-> Tail(tmp_nodes)]
             ELSE pop_until_left(a, t, Tail(tmp_nodes))

\* A variant of search_key that looks at the first child of the root only.
search_key_first(a, key, traverse, prev, tmp_nodes) ==
    IF traverse # None /\ a[traverse].key = key
    THEN [targ |-> traverse, prev |-> prev]
    ELSE [targ |-> None, prev |-> prev]

RECURSIVE search_order(_, _, _, _, _)
\* ph.rs, decrease_prio, the outer `while let Some(node) = traverse`: the
\* nodes whose key the scan compares, in the order it meets them.
search_order(a, key, traverse, tmp_nodes, met) ==
    IF traverse = None THEN met
    ELSE IF a[traverse].key = key THEN Append(met, traverse)
    ELSE LET q == Append(tmp_nodes, traverse)
         IN  IF a[traverse].right # None
             THEN search_order(a, key, a[traverse].right, q, Append(met, traverse))
             ELSE LET r == pop_until_left(a, traverse, q)
                  IN  search_order(a, key, r.traverse, r.tmp_nodes, Append(met, traverse))

RECURSIVE search_key(_, _, _, _, _)
\* ph.rs, decrease_prio, the outer `while let Some(node) = traverse`: a
\* breadth-first scan below the root for the first node holding `key`.
search_key(a, key, traverse, prev, tmp_nodes) ==
    IF traverse = None THEN [targ |-> None, prev |-> prev]
    ELSE IF a[traverse].key = key THEN [targ |-> traverse, prev |-> prev]
    ELSE LET q == Append(tmp_nodes, traverse)
         IN  IF a[traverse].right # None
             THEN search_key(a, key, a[traverse].right, traverse, q)
             ELSE LET r == pop_until_left(a, traverse, q)
                  IN  search_key(a, key, r.traverse, traverse, r.tmp_nodes)

cut_no_merge(a, self, node, parent, prev) ==
    LET a1 == IF a[parent].left = node
              THEN [a EXCEPT ![parent].left = a[node].right]
              ELSE a
        a2 == IF prev # None /\ a1[prev].right = node
              THEN [a1 EXCEPT ![prev].right = a1[node].right]
              ELSE a1
    IN  [arena |-> [a2 EXCEPT ![node].parent = None, ![node].right = None],
         heap |-> self, panic |-> FALSE]

\* ph.rs, decrease_prio and update, from `if parent.left == targ` on: splice
\* the node out of its sibling list and merge it with the root.
cut_and_merge(a, self, node, parent, prev) ==
    LET a1 == IF a[parent].left = node
              THEN [a EXCEPT ![parent].left = a[node].right]
              ELSE a
        a2 == IF prev # None /\ a1[prev].right = node
              THEN [a1 EXCEPT ![prev].right = a1[node].right]
              ELSE a1
        a3 == [a2 EXCEPT ![node].parent = None, ![node].right = None]
        m == merge_nodes(a3, self.root, node)
    IN  [arena |-> m.arena, heap |-> [self EXCEPT !.root = m.root], panic |-> FALSE]

\* A variant of decrease_prio that writes the priority and never cuts.
decrease_prio_no_cut(a, self, key, delta) ==
    IF self.root = None THEN [arena |-> a, heap |-> self, panic |-> FALSE]
    ELSE IF a[self.root].key = key
    THEN [arena |-> [a EXCEPT ![self.root].prio = @ - delta],
          heap |-> self, panic |-> FALSE]
    ELSE LET s == search_key(a, key, a[self.root].left, None, <<>>)
         IN  IF s.targ = None THEN [arena |-> a, heap |-> self, panic |-> FALSE]
             ELSE [arena |-> [a EXCEPT ![s.targ].prio = @ - delta],
                   heap |-> self, panic |-> FALSE]

\* ph.rs, decrease_prio: lower by `delta` the priority of the first node found
\* with `key`; cut it when its parent's priority is no longer strictly smaller.
decrease_prio(a, self, key, delta) ==
    IF self.root = None THEN [arena |-> a, heap |-> self, panic |-> FALSE]
    ELSE IF a[self.root].key = key
    THEN [arena |-> [a EXCEPT ![self.root].prio = @ - delta],
          heap |-> self, panic |-> FALSE]
    ELSE LET s == search_key(a, key, a[self.root].left, None, <<>>)
             node == s.targ
         IN  IF node = None THEN [arena |-> a, heap |-> self, panic |-> FALSE]
             ELSE IF a[node].parent = None
             THEN [arena |-> a, heap |-> self, panic |-> TRUE]
             ELSE LET parent == a[node].parent
                      a1 == [a EXCEPT ![node].prio = @ - delta]
                  IN  IF a1[parent].prio < a1[node].prio
                      THEN [arena |-> a1, heap |-> self, panic |-> FALSE]
                      ELSE cut_and_merge(a1, self, node, parent, s.prev)

\* A variant of find_prev that finds no elder sibling.
find_prev_none(a, node, targ) == None

RECURSIVE find_prev(_, _, _)
\* ph.rs, update, `while let Some(prev_node) = prev`: the sibling whose right
\* link is targ, or None.
find_prev(a, prev, targ) ==
    IF prev = None THEN None
    ELSE IF a[prev].right = targ THEN prev
    ELSE find_prev(a, a[prev].right, targ)

update_no_cut(a, self, targ, new_prio) ==
    IF targ = None THEN [arena |-> a, heap |-> self, panic |-> FALSE]
    ELSE [arena |-> [a EXCEPT ![targ].prio = new_prio], heap |-> self, panic |-> FALSE]

\* ph.rs, update: write the new priority through the handle's pointer; a node
\* with a parent is cut unless the parent's priority is strictly smaller.
update(a, self, targ, new_prio) ==
    IF targ = None THEN [arena |-> a, heap |-> self, panic |-> FALSE]
    ELSE IF a[targ].parent # None
    THEN LET parent == a[targ].parent
             prev == find_prev(a, a[parent].left, targ)
             a1 == [a EXCEPT ![targ].prio = new_prio]
         IN  IF a1[parent].prio < a1[targ].prio
             THEN [arena |-> a1, heap |-> self, panic |-> FALSE]
             ELSE cut_and_merge(a1, self, targ, parent, prev)
    ELSE [arena |-> [a EXCEPT ![targ].prio = new_prio], heap |-> self, panic |-> FALSE]

\* ph.rs, update_prio: update through the handle's inner pointer.
update_prio(a, self, elmt, new_prio) == update(a, self, elmt, new_prio)

RECURSIVE remove(_, _, _)
RECURSIVE remove_children(_, _, _, _)
\* ph.rs, Drop, fn remove, `while let Some(left) = node.left`: each round
\* removes the first child and puts its next sibling in its place. depth is
\* the deepest nesting of remove calls below this frame.
remove_children(a, b, node, depth) ==
    IF a[node].left = None THEN [arena |-> a, boxes |-> b, depth |-> depth]
    ELSE LET r == remove(a, b, a[node].left)
         IN  remove_children([r.arena EXCEPT ![node].left = r.ret], r.boxes, node,
                             IF r.depth > depth THEN r.depth ELSE depth)

\* ph.rs, Drop, fn remove: free the children, then the node; the next sibling
\* is returned. depth counts the frames of remove that are live at once.
remove(a, b, targ) ==
    IF targ = None THEN [arena |-> a, boxes |-> b, ret |-> None, depth |-> 1]
    ELSE LET node == targ
             c == remove_children(a, b, node, 0)
             sibling == c.arena[node].right
         IN  [arena |-> [c.arena EXCEPT ![node].right = None, ![node].parent = None],
              boxes |-> [c.boxes EXCEPT ![node] = @ + 1],
              ret |-> sibling,
              depth |-> 1 + c.depth]

\* A variant of drop that frees the root only.
drop_root_only(a, b, self) ==
    IF self.root = None
    THEN [arena |-> a, boxes |-> b, heap |-> self, depth |-> 1]
    ELSE [arena |-> a, boxes |-> [b EXCEPT ![self.root] = @ + 1],
          heap |-> [self EXCEPT !.root = None], depth |-> 1]

\* ph.rs, Drop::drop: remove(self.root), then the root is cleared.
drop(a, b, self) ==
    LET r == remove(a, b, self.root)
    IN  [arena |-> r.arena, boxes |-> r.boxes,
         heap |-> [self EXCEPT !.root = None], depth |-> r.depth]

HeapElmt_none_keep(elmt) == elmt

\* ph.rs, HeapElmt::is_none / HeapElmt::none
HeapElmt_is_none(elmt) == elmt = None
HeapElmt_none(elmt) == None

\* ------------------------------------------------------------------ graph.rs
\* graph.rs, SimpleGraph::new
SimpleGraph_new == [n_edges |-> 0, weights |-> <<>>]

\* graph.rs, n_nodes: the number of keys of the adjacency map
n_nodes(g) == Cardinality(DOMAIN g.weights)

\* graph.rs, n_edges
n_edges(g) == g.n_edges

\* A variant of insert_weight that puts the new entry in front of the list.
insert_weight_front(w, node1, node2, weight) ==
    IF node1 \in DOMAIN w
    THEN [w EXCEPT ![node1] = <<<<node2, weight>>>> \o @]
    ELSE [n \in DOMAIN w \cup {node1} |->
            IF n = node1 THEN <<<<node2, weight>>>> ELSE w[n]]

\* A variant of insert_weight that overwrites the weight of an entry that
\* already leads to node2.
insert_weight_update(w, node1, node2, weight) ==
    IF node1 \in DOMAIN w
    THEN IF \E k \in DOMAIN w[node1] : w[node1][k][1] = node2
         THEN [w EXCEPT ![node1] =
                  [k \in DOMAIN @ |-> IF @[k][1] = node2 THEN <<node2, weight>> ELSE @[k]]]
         ELSE [w EXCEPT ![node1] = Append(@, <<node2, weight>>)]
    ELSE [n \in DOMAIN w \cup {node1} |->
            IF n = node1 THEN <<<<node2, weight>>>> ELSE w[n]]

\* graph.rs, insert_weight: push onto node1's list, creating it when absent
insert_weight(w, node1, node2, weight) ==
    IF node1 \in DOMAIN w
    THEN [w EXCEPT ![node1] = Append(@, <<node2, weight>>)]
    ELSE [n \in DOMAIN w \cup {node1} |->
            IF n = node1 THEN <<<<node2, weight>>>> ELSE w[n]]

\* A variant of add_weighted_edges that stores a self-loop as well.
add_weighted_edges_loop(g, node1, node2, weight) ==
    [n_edges |-> g.n_edges + 2,
     weights |-> insert_weight(insert_weight(g.weights, node1, node2, weight),
                               node2, node1, weight)]

\* graph.rs, add_weighted_edges: two half-edges unless node1 = node2; the
\* counter grows by two in either case.
add_weighted_edges(g, node1, node2, weight) ==
    LET w1 == IF node1 # node2
              THEN insert_weight(insert_weight(g.weights, node1, node2, weight),
                                 node2, node1, weight)
              ELSE g.weights
    IN  [n_edges |-> g.n_edges + 2, weights |-> w1]

\* graph.rs, neighbours: the list of a node, an empty one standing for None
neighbours(g, node) == IF node \in DOMAIN g.weights THEN g.weights[node] ELSE <<>>

\* <W as Bounded>::max_value() of the weight type W, taken as u16; no sum of
\* the weights used here comes near it.
W_max == 65535

\* A Vec indexed from 0.
At(v, i) == v[i + 1]
InBounds(v, i) == i >= 0 /\ i < Len(v)
Set(v, i, x) == [v EXCEPT ![i + 1] = x]

\* graph.rs, DijNode::new
DijNode_new == [pred |-> 0, len |-> 0, visited |-> FALSE, feasible |-> FALSE, dist |-> W_max]

Idle == [pc |-> "build", alg |-> "none", src |-> 0, a |-> <<>>, freed |-> {},
         pq |-> PairingHeap_default, nodes |-> <<>>, rg |-> SimpleGraph_new, total |-> 0]

dij_relax_one_always(r, node, prio, count, e) ==
    LET u == e[1]
        dist == e[2]
    IN  IF ~InBounds(r.nodes, u) THEN [r EXCEPT !.pc = "panic"]
        ELSE LET dijnode == At(r.nodes, u)
                 alt == prio + dist
             IN  IF ~dijnode.visited
                 THEN LET i == insert2(r.a, r.pq, u, alt)
                      IN  [r EXCEPT !.nodes = Set(r.nodes, u,
                                        [dijnode EXCEPT !.dist = alt, !.pred = node,
                                                        !.len = count, !.feasible = TRUE]),
                                    !.a = i.arena, !.pq = i.heap]
                 ELSE r

\* A variant of dij_relax_one that also takes a distance equal to the
\* recorded one, whether or not the neighbour is visited.
dij_relax_one_le(r, node, prio, count, e) ==
    LET u == e[1]
        dist == e[2]
    IN  IF ~InBounds(r.nodes, u) THEN [r EXCEPT !.pc = "panic"]
        ELSE LET dijnode == At(r.nodes, u)
                 alt == prio + dist
             IN  IF alt <= dijnode.dist
                 THEN LET i == insert2(r.a, r.pq, u, alt)
                      IN  [r EXCEPT !.nodes = Set(r.nodes, u,
                                        [dijnode EXCEPT !.dist = alt, !.pred = node,
                                                        !.len = count, !.feasible = TRUE]),
                                    !.a = i.arena, !.pq = i.heap]
                 ELSE r

\* graph.rs, dijkstra, the body of `for (u, dist) in nb`
dij_relax_one(r, node, prio, count, e) ==
    LET u == e[1]
        dist == e[2]
    IN  IF ~InBounds(r.nodes, u) THEN [r EXCEPT !.pc = "panic"]
        ELSE LET dijnode == At(r.nodes, u)
                 alt == prio + dist
             IN  IF ~dijnode.visited /\ alt < dijnode.dist
                 THEN LET i == insert2(r.a, r.pq, u, alt)
                      IN  [r EXCEPT !.nodes = Set(r.nodes, u,
                                        [dijnode EXCEPT !.dist = alt, !.pred = node,
                                                        !.len = count, !.feasible = TRUE]),
                                    !.a = i.arena, !.pq = i.heap]
                 ELSE r

RECURSIVE dij_relax(_, _, _, _, _)
\* graph.rs, dijkstra, `for (u, dist) in nb`; a panic ends it.
dij_relax(r, node, prio, count, nb) ==
    IF nb = <<>> \/ r.pc = "panic" THEN r
    ELSE dij_relax(dij_relax_one(r, node, prio, count, Head(nb)), node, prio, count, Tail(nb))

\* A variant of dij_start whose state vector is one entry short.
dij_start_short(g, src) ==
    LET i == insert2(<<>>, PairingHeap_default, src, 0)
        nodes == [k \in 1..(n_nodes(g) - 1) |-> DijNode_new]
    IN  IF ~InBounds(nodes, src)
        THEN [Idle EXCEPT !.pc = "panic", !.alg = "dijkstra", !.src = src,
                          !.a = i.arena, !.pq = i.heap, !.nodes = nodes]
        ELSE [Idle EXCEPT !.pc = "loop", !.alg = "dijkstra", !.src = src,
                          !.a = i.arena, !.pq = i.heap,
                          !.nodes = Set(nodes, src, [DijNode_new EXCEPT !.dist = 0])]

\* graph.rs, dijkstra, up to the loop: the queue holds the source, the state
\* vector has n_nodes entries, and nodes[src] must exist.
dij_start(g, src) ==
    LET i == insert2(<<>>, PairingHeap_default, src, 0)
        nodes == [k \in 1..n_nodes(g) |-> DijNode_new]
    IN  IF ~InBounds(nodes, src)
        THEN [Idle EXCEPT !.pc = "panic", !.alg = "dijkstra", !.src = src,
                          !.a = i.arena, !.pq = i.heap, !.nodes = nodes]
        ELSE [Idle EXCEPT !.pc = "loop", !.alg = "dijkstra", !.src = src,
                          !.a = i.arena, !.pq = i.heap,
                          !.nodes = Set(nodes, src, [DijNode_new EXCEPT !.dist = 0])]

\* graph.rs, dijkstra, one round of `while len != 0`
dij_iter(g, r) ==
    LET d == delete_min(r.a, r.pq)
        node == d.ret[1]
        prio == d.ret[2]
        r1 == [r EXCEPT !.a = d.arena, !.pq = d.heap, !.freed = @ \cup {d.box}]
    IN  IF ~InBounds(r.nodes, node) THEN [r1 EXCEPT !.pc = "panic"]
        ELSE LET count == At(r.nodes, node).len + 1
                 r2 == dij_relax(r1, node, prio, count, neighbours(g, node))
             IN  IF r2.pc = "panic" THEN r2
                 ELSE [r2 EXCEPT !.nodes = Set(r2.nodes, node,
                                     [At(r2.nodes, node) EXCEPT !.visited = TRUE])]

\* graph.rs, dijkstra: `while len != 0` is left, the state vector is returned
dij_finish(r) == [r EXCEPT !.pc = "done"]

RECURSIVE traverse_walk(_, _, _, _)
\* graph.rs, traverse_path, `while len < expected`: predecessors are put in
\* front of the path until it has `expected` nodes.
traverse_walk(paths, path, next, expected) ==
    IF Len(path) < expected
    THEN traverse_walk(paths, <<next>> \o path, At(paths, next).pred, expected)
    ELSE path

traverse_path_short(src, dest, paths) ==
    LET end_node == At(paths, dest)
    IN  IF end_node.feasible
        THEN [src |-> src, dest |-> dest, dist |-> end_node.dist,
              path |-> traverse_walk(paths, <<dest>>, end_node.pred, end_node.len),
              feasible |-> TRUE]
        ELSE [src |-> src, dest |-> dest, dist |-> 0, path |-> <<>>, feasible |-> FALSE]

\* graph.rs, traverse_path: the ShortestPath for `dest`.
traverse_path(src, dest, paths) ==
    LET end_node == At(paths, dest)
    IN  IF end_node.feasible
        THEN [src |-> src, dest |-> dest, dist |-> end_node.dist,
              path |-> traverse_walk(paths, <<dest>>, end_node.pred, end_node.len + 1),
              feasible |-> TRUE]
        ELSE [src |-> src, dest |-> dest, dist |-> 0, path |-> <<>>, feasible |-> FALSE]


\* graph.rs, LazyShortestPaths::get
get(src, node_index, paths) == traverse_path(src, node_index, paths)

\* graph.rs, LazyShortestPaths::get_list
get_list(src, node_indices, paths) ==
    [k \in DOMAIN node_indices |-> traverse_path(src, node_indices[k], paths)]

\* graph.rs, sssp_dijkstra, after dijkstra(src) has returned `nodes`
sssp_dijkstra(src, dest, nodes) ==
    [k \in DOMAIN dest |-> traverse_path(src, dest[k], nodes)]

\* Vec::reverse
Reverse(v) == [k \in DOMAIN v |-> v[Len(v) + 1 - k]]

RECURSIVE get_all_chain(_, _, _, _, _, _, _)
\* graph.rs, get_all, `while len < expected`: predecessors are put in front
\* of the chain; at a predecessor with a smaller index than ii its finished
\* path (reversed when ii < src) is put in front instead and the loop ends.
get_all_chain(paths, src, ii, result, chain, next, expected) ==
    IF Len(chain) < expected
    THEN IF next < ii
         THEN LET sp == At(result, next).path
              IN  (IF ii < src THEN Reverse(sp) ELSE sp) \o chain
         ELSE get_all_chain(paths, src, ii, result, <<next>> \o chain,
                            At(paths, next).pred, expected)
    ELSE chain

RECURSIVE get_all_loop(_, _, _, _)
\* graph.rs, get_all, `for ii in 0..n_nodes`
get_all_loop(paths, src, ii, result) ==
    IF ii >= Len(paths) THEN result
    ELSE LET end_node == At(paths, ii)
             expected == end_node.len + 1
             sp == IF end_node.feasible
                   THEN [src |-> src, dest |-> ii, dist |-> end_node.dist,
                         path |-> get_all_chain(paths, src, ii, result, <<>>,
                                                end_node.pred, expected),
                         feasible |-> TRUE]
                   ELSE [src |-> src, dest |-> ii, dist |-> 0, path |-> <<>>,
                         feasible |-> FALSE]
         IN  get_all_loop(paths, src, ii + 1, Append(result, sp))

\* graph.rs, LazyShortestPaths::get_all
get_all(src, paths) == get_all_loop(paths, src, 0, <<>>)

\* Option<usize>::None for PrimNode.parent (node ids start at 0)
NoParent == -1

\* graph.rs, PrimNode::new
PrimNode_new == [idx |-> 0, parent |-> NoParent, heap |-> None, dist |-> W_max]

RECURSIVE prim_nodes_zero(_, _, _, _)
\* A variant of prim_nodes that starts every node at distance zero.
prim_nodes_zero(r, src, ii, n) ==
    IF ii >= n THEN r
    ELSE LET dist == 0
             i == insert2(r.a, r.pq, ii, dist)
             node == [PrimNode_new EXCEPT !.dist = dist, !.idx = ii, !.heap = i.elmt]
         IN  prim_nodes_zero([r EXCEPT !.a = i.arena, !.pq = i.heap,
                                  !.nodes = Append(@, node)], src, ii + 1, n)

RECURSIVE prim_nodes(_, _, _, _)
\* graph.rs, mst_prim, `(0..graph.n_nodes()).map(..).collect()`: one PrimNode
\* per index, each inserted into the queue, the source at distance zero.
prim_nodes(r, src, ii, n) ==
    IF ii >= n THEN r
    ELSE LET dist == IF ii = src THEN 0 ELSE W_max
             i == insert2(r.a, r.pq, ii, dist)
             node == [PrimNode_new EXCEPT !.dist = dist, !.idx = ii, !.heap = i.elmt]
         IN  prim_nodes([r EXCEPT !.a = i.arena, !.pq = i.heap,
                                  !.nodes = Append(@, node)], src, ii + 1, n)

\* graph.rs, mst_prim, up to the loop
prim_start(g, src) ==
    prim_nodes([Idle EXCEPT !.pc = "loop", !.alg = "prim", !.src = src], src, 0, n_nodes(g))

prim_relax_one_always(r, node, e) ==
    LET u == e[1]
        dist == e[2]
    IN  IF ~InBounds(r.nodes, u) THEN [r EXCEPT !.pc = "panic"]
        ELSE LET primnode == At(r.nodes, u)
             IN  IF ~HeapElmt_is_none(primnode.heap)
                 THEN LET up == update_prio(r.a, r.pq, primnode.heap, dist)
                      IN  [r EXCEPT !.nodes = Set(r.nodes, u,
                                        [primnode EXCEPT !.dist = dist, !.parent = node]),
                                    !.a = up.arena, !.pq = up.heap]
                 ELSE r

\* graph.rs, mst_prim, the body of `for (u, dist) in nb`
prim_relax_one(r, node, e) ==
    LET u == e[1]
        dist == e[2]
    IN  IF ~InBounds(r.nodes, u) THEN [r EXCEPT !.pc = "panic"]
        ELSE LET primnode == At(r.nodes, u)
             IN  IF ~HeapElmt_is_none(primnode.heap) /\ dist < primnode.dist
                 THEN LET up == update_prio(r.a, r.pq, primnode.heap, dist)
                      IN  [r EXCEPT !.nodes = Set(r.nodes, u,
                                        [primnode EXCEPT !.dist = dist, !.parent = node]),
                                    !.a = up.arena, !.pq = up.heap]
                 ELSE r

RECURSIVE prim_relax(_, _, _)
\* graph.rs, mst_prim, `for (u, dist) in nb`; a panic ends it.
prim_relax(r, node, nb) ==
    IF nb = <<>> \/ r.pc = "panic" THEN r
    ELSE prim_relax(prim_relax_one(r, node, Head(nb)), node, Tail(nb))

\* graph.rs, mst_prim, one round of `while len != 0`: pop, invalidate the
\* popped node's handle, relax its neighbours.
prim_iter(g, r) ==
    LET d == delete_min(r.a, r.pq)
        node == d.ret[1]
        r1 == [r EXCEPT !.a = d.arena, !.pq = d.heap, !.freed = @ \cup {d.box}]
    IN  IF ~InBounds(r.nodes, node) THEN [r1 EXCEPT !.pc = "panic"]
        ELSE LET r2 == [r1 EXCEPT !.nodes = Set(r1.nodes, node,
                                      [At(r1.nodes, node) EXCEPT
                                          !.heap = HeapElmt_none(@)])]
             IN  prim_relax(r2, node, neighbours(g, node))

RECURSIVE prim_emit_to_src(_, _)
\* A variant of prim_emit that joins every node to the source instead of its
\* recorded parent.
prim_emit_to_src(r, nodes) ==
    IF nodes = <<>> THEN r
    ELSE LET node == Head(nodes)
         IN  IF node.parent # NoParent
             THEN prim_emit_to_src([r EXCEPT
                                !.rg = add_weighted_edges(@, r.src, node.idx, node.dist),
                                !.total = @ + node.dist], Tail(nodes))
             ELSE prim_emit_to_src(r, Tail(nodes))

RECURSIVE prim_emit(_, _)
\* graph.rs, mst_prim, `for node in nodes`: the edge to the parent goes into
\* the result graph and its weight into the total.
prim_emit(r, nodes) ==
    IF nodes = <<>> THEN r
    ELSE LET node == Head(nodes)
         IN  IF node.parent # NoParent
             THEN prim_emit([r EXCEPT
                                !.rg = add_weighted_edges(@, node.parent, node.idx, node.dist),
                                !.total = @ + node.dist], Tail(nodes))
             ELSE prim_emit(r, Tail(nodes))

prim_finish_from_src(r) == prim_emit([r EXCEPT !.pc = "done", !.total = r.src], r.nodes)

\* graph.rs, mst_prim, after the loop
prim_finish(r) == prim_emit([r EXCEPT !.pc = "done"], r.nodes)

RECURSIVE prim_loop(_, _)
\* graph.rs, mst_prim, `while len != 0`; a panic ends the call.
prim_loop(g, r) ==
    IF r.pc = "panic" THEN r
    ELSE IF len(r.pq) # 0 THEN prim_loop(g, prim_iter(g, r))
    ELSE prim_finish(r)

\* graph.rs, mst_prim: the whole call.
mst_prim(g, src) == prim_loop(g, prim_start(g, src))

\* ------------------------------------------------------------------ heap operations
NoOp == [op |-> "new", h |-> 0, node |-> None, prio |-> 0, root0 |-> None, ret |-> <<>>, seen |-> <<>>]

NoScript == [calls |-> <<>>, out |-> <<>>]

Init ==
    /\ arena = <<>>
    /\ boxes = <<>>
    /\ heap = [h \in HeapIds |-> PairingHeap_default]
    /\ elmts = <<>>
    /\ issued = <<>>
    /\ panicked = FALSE
    /\ ins = [h \in HeapIds |-> 0]
    /\ dels = [h \in HeapIds |-> 0]
    /\ bag = [h \in HeapIds |-> {}]
    /\ drain = [h \in HeapIds |-> <<>>]
    /\ last = NoOp
    /\ recycled = <<>>
    /\ script = NoScript
    /\ graph = SimpleGraph_new
    /\ run = Idle

\* A handle that was not invalidated and whose node delete_min has not returned.
Live(i) == elmts[i] # None /\ boxes[elmts[i]] = 0

\* heap[h].insert2(key, prio); the handle is kept in elmts.
InsertCall(h, key, prio) ==
    /\ ~panicked
    /\ Len(arena) < MaxNodes
    /\ LET r == insert2(arena, heap[h], key, prio)
       IN  /\ arena' = r.arena
           /\ heap' = [heap EXCEPT ![h] = r.heap]
           /\ elmts' = Append(elmts, r.elmt)
           /\ issued' = Append(issued, key)
           /\ boxes' = Append(boxes, 0)
           /\ bag' = [bag EXCEPT ![h] = @ \cup {r.elmt}]
           /\ last' = [op |-> "insert", h |-> h, node |-> r.elmt, prio |-> prio,
                       root0 |-> heap[h].root, ret |-> <<>>, seen |-> <<>>]
    /\ ins' = [ins EXCEPT ![h] = @ + 1]
    /\ drain' = [drain EXCEPT ![h] = <<>>]
    /\ UNCHANGED <<panicked, dels>>
    /\ UNCHANGED <<graphVars, script>>

\* heap[h].insert2(key, prio) in runs that do not follow the allocator
Insert(h, key, prio) ==
    /\ InsertCall(h, key, prio)
    /\ UNCHANGED recycled

\* heap[h].insert2(key, prio) in runs that use handles of freed nodes: the
\* allocator may hand the new Box any address freed so far.
InsertAlloc(h, key, prio) ==
    /\ InsertCall(h, key, prio)
    /\ recycled' = Append(recycled, {m \in DOMAIN boxes : boxes[m] > 0})

\* heap[Main] = heap[self].merge(heap[other]): both operands are consumed,
\* the caller keeps the result as its heap and the other slot holds a new heap.
Merge(self, other) ==
    /\ ~panicked
    /\ self # other
    /\ LET r == merge(arena, heap[self], heap[other])
           c == merge_consumed(heap[self], heap[other])
           d2 == drop(r.arena, boxes, c[2])
           d1 == drop(d2.arena, d2.boxes, c[1])
       IN  /\ arena' = d1.arena
           /\ boxes' = d1.boxes
           /\ heap' = [heap EXCEPT ![Main] = r.heap, ![Other] = PairingHeap_default]
    /\ last' = [op |-> "merge", h |-> self, node |-> heap[other].root, prio |-> 0,
                root0 |-> heap[self].root, ret |-> <<>>, seen |-> <<>>]
    /\ ins' = [ins EXCEPT ![Main] = ins[self] + ins[other], ![Other] = 0]
    /\ dels' = [dels EXCEPT ![Main] = dels[self] + dels[other], ![Other] = 0]
    /\ bag' = [bag EXCEPT ![Main] = bag[self] \cup bag[other], ![Other] = {}]
    /\ drain' = [drain EXCEPT ![Main] = <<>>, ![Other] = <<>>]
    /\ UNCHANGED <<elmts, issued, panicked, recycled>>
    /\ UNCHANGED <<graphVars, script>>

\* heap[h].delete_min(): the call and the history other than script
DeleteMinCall(h) ==
    /\ ~panicked
    /\ LET r == delete_min(arena, heap[h])
       IN  /\ arena' = r.arena
           /\ heap' = [heap EXCEPT ![h] = r.heap]
           /\ boxes' = IF r.box = None THEN boxes ELSE [boxes EXCEPT ![r.box] = @ + 1]
           /\ dels' = IF r.ret = <<>> THEN dels ELSE [dels EXCEPT ![h] = @ + 1]
           /\ bag' = [bag EXCEPT ![h] = @ \ {r.box}]
           /\ drain' = IF r.ret = <<>> THEN drain
                       ELSE [drain EXCEPT ![h] = Append(@, r.ret[2])]
           /\ last' = [op |-> "delete_min", h |-> h, node |-> r.box, prio |-> 0,
                       root0 |-> heap[h].root, ret |-> r.ret,
                       seen |-> IF last.op = "find_min" THEN last.ret ELSE <<>>]
    /\ UNCHANGED <<elmts, issued, panicked, ins, recycled>>
    /\ UNCHANGED graphVars

\* heap[h].delete_min()
DeleteMin(h) ==
    /\ DeleteMinCall(h)
    /\ UNCHANGED script

\* heap[h] goes out of scope; a new heap takes its place. seen keeps the
\* roots of the operands when the heap had just been returned by merge.
Drop(h) ==
    /\ ~panicked
    /\ LET d == drop(arena, boxes, heap[h])
       IN  /\ arena' = d.arena
           /\ boxes' = d.boxes
           /\ last' = [op |-> "drop", h |-> h, node |-> heap[h].root, prio |-> d.depth,
                       root0 |-> heap[h].root, ret |-> <<>>,
                       seen |-> IF last.op = "merge" /\ h = Main
                                THEN <<last.root0, last.node>> ELSE <<>>]
    /\ heap' = [heap EXCEPT ![h] = PairingHeap_default]
    /\ ins' = [ins EXCEPT ![h] = 0]
    /\ dels' = [dels EXCEPT ![h] = 0]
    /\ bag' = [bag EXCEPT ![h] = {}]
    /\ drain' = [drain EXCEPT ![h] = <<>>]
    /\ UNCHANGED <<elmts, issued, panicked, recycled>>
    /\ UNCHANGED <<graphVars, script>>

\* heap[h].find_min()
FindMin(h) ==
    /\ ~panicked
    /\ last' = [op |-> "find_min", h |-> h, node |-> heap[h].root, prio |-> 0,
                root0 |-> heap[h].root, ret |-> find_min(arena, heap[h]),
                seen |-> <<>>]
    /\ UNCHANGED <<arena, boxes, heap, elmts, issued, panicked, ins, dels, bag, drain, recycled>>
    /\ UNCHANGED <<graphVars, script>>

\* heap[h].decrease_prio(&key, delta): the call and the history other than
\* script
DecreasePrioCall(h, key, delta) ==
    /\ ~panicked
    /\ LET r == decrease_prio(arena, heap[h], key, delta)
       IN  /\ arena' = r.arena
           /\ heap' = [heap EXCEPT ![h] = r.heap]
           /\ panicked' = r.panic
    /\ last' = [op |-> "decrease_prio", h |-> h, node |-> None, prio |-> 0,
                root0 |-> heap[h].root, ret |-> <<>>, seen |-> <<>>]
    /\ drain' = [drain EXCEPT ![h] = <<>>]
    /\ UNCHANGED <<boxes, elmts, issued, ins, dels, bag, recycled>>
    /\ UNCHANGED graphVars

\* heap[h].decrease_prio(&key, delta) with priorities that stay in Prios
DecreasePrio(h, key, delta) ==
    /\ \A n \in DOMAIN arena :
          decrease_prio(arena, heap[h], key, delta).arena[n].prio \in Prios
    /\ DecreasePrioCall(h, key, delta)
    /\ UNCHANGED script

\* heap[h].update_prio(&elmts[i], new_prio)
UpdateCall(h, i, new_prio) ==
    /\ LET r == update_prio(arena, heap[h], elmts[i], new_prio)
       IN  /\ arena' = r.arena
           /\ heap' = [heap EXCEPT ![h] = r.heap]
           /\ panicked' = r.panic
    /\ last' = [op |-> "update_prio", h |-> h, node |-> elmts[i], prio |-> new_prio,
                root0 |-> heap[h].root, ret |-> <<>>, seen |-> <<>>]
    /\ drain' = [drain EXCEPT ![h] = <<>>]
    /\ UNCHANGED <<boxes, elmts, issued, ins, dels, bag, recycled>>
    /\ UNCHANGED <<graphVars, script>>

\* update_prio within its contract: a live handle, on the heap that holds
\* the node, with a priority not greater than the node's.
UpdatePrio(h, i, new_prio) ==
    /\ ~panicked
    /\ Live(i)
    /\ elmts[i] \in bag[h]
    /\ new_prio <= arena[elmts[i]].prio
    /\ UpdateCall(h, i, new_prio)

\* update_prio through an invalidated handle.
UpdateNone(h, i, new_prio) ==
    /\ ~panicked
    /\ HeapElmt_is_none(elmts[i])
    /\ UpdateCall(h, i, new_prio)

\* update_prio that raises the priority of a node in the heap.
UpdateRaise(h, i, new_prio) ==
    /\ ~panicked
    /\ Live(i)
    /\ elmts[i] \in bag[h]
    /\ new_prio > arena[elmts[i]].prio
    /\ UpdateCall(h, i, new_prio)

\* update_prio through a handle whose node delete_min has freed: (*node).prio
\* is written through a dangling pointer. The write lands in the freed Box,
\* or in a node that was allocated at the same address since, or the process
\* dies.
UpdateStale(h, i, new_prio) ==
    /\ ~panicked
    /\ ~HeapElmt_is_none(elmts[i])
    /\ boxes[elmts[i]] > 0
    /\ \/ \E targ \in {elmts[i]} \cup {n \in bag[h] : elmts[i] \in recycled[n]} :
            LET r == update(arena, heap[h], targ, new_prio)
            IN  /\ arena' = r.arena
                /\ heap' = [heap EXCEPT ![h] = r.heap]
                /\ panicked' = r.panic
       \/ /\ panicked' = TRUE
          /\ UNCHANGED <<arena, heap>>
    /\ last' = [op |-> "update_stale", h |-> h, node |-> elmts[i], prio |-> new_prio,
                root0 |-> heap[h].root, ret |-> <<>>, seen |-> <<>>]
    /\ drain' = [drain EXCEPT ![h] = <<>>]
    /\ UNCHANGED <<boxes, elmts, issued, ins, dels, bag, recycled>>
    /\ UNCHANGED <<graphVars, script>>

\* elmts[i].none()
Invalidate(i) ==
    /\ ~panicked
    /\ elmts' = [elmts EXCEPT ![i] = HeapElmt_none(@)]
    /\ last' = [op |-> "none", h |-> 0, node |-> elmts[i], prio |-> 0, root0 |-> None,
                ret |-> <<>>, seen |-> <<>>]
    /\ UNCHANGED <<arena, boxes, heap, issued, panicked, ins, dels, bag, drain, recycled>>
    /\ UNCHANGED <<graphVars, script>>

\* The keys of a run are pairwise distinct: the next insert uses the address
\* of the node it allocates (tests.rs, create_heap: insert2(ii, ii)).
NewKey == Len(arena) + 1

\* Contract use of the heap: every operation on Main, while Other is filled
\* by inserts and merged with Main in either direction.
Next ==
    \/ \E h \in HeapIds, prio \in Prios : Insert(h, NewKey, prio)
    \/ \E self \in HeapIds, other \in HeapIds : Merge(self, other)
    \/ DeleteMin(Main)
    \/ \E key \in 1..MaxNodes, delta \in Prios : DecreasePrio(Main, key, delta)
    \/ \E i \in DOMAIN elmts, p \in Prios : UpdatePrio(Main, i, p)

Spec == Init /\ [][Next]_vars

\* ------------------------------------------------------------------ scripted runs
RECURSIVE create_heap(_, _, _, _)
\* tests.rs, create_heap(start, end): insert2(ii, ii) for ii in start..end
\* into a new heap; the handles are collected in order.
create_heap(a, ph, ii, end) ==
    IF ii >= end THEN [arena |-> a, heap |-> ph]
    ELSE LET r == insert2(a, ph, ii, ii)
         IN  create_heap(r.arena, r.heap, ii + 1, end)

\* tests.rs, decrease_prio / update_prio: create_heap(1, 11)
HeapStart == 1
HeapEnd == 11

\* tests.rs, decrease_prio: the four calls, as <<key, delta>>
DecreaseCalls == {<<8, 4>>, <<6, 3>>, <<9, 3>>, <<10, 2>>}

\* let (mut ph, v) = create_heap(1, 11)
CreateHeap ==
    /\ script.calls = <<>>
    /\ arena = <<>>
    /\ LET r == create_heap(arena, heap[Main], HeapStart, HeapEnd)
           n == Len(r.arena)
       IN  /\ arena' = r.arena
           /\ heap' = [heap EXCEPT ![Main] = r.heap]
           /\ elmts' = [i \in 1..n |-> i]
           /\ issued' = [i \in 1..n |-> r.arena[i].key]
           /\ boxes' = [i \in 1..n |-> 0]
           /\ bag' = [bag EXCEPT ![Main] = 1..n]
           /\ ins' = [ins EXCEPT ![Main] = n]
           /\ last' = [op |-> "insert", h |-> Main, node |-> n, prio |-> r.arena[n].prio,
                       root0 |-> None, ret |-> <<>>, seen |-> <<>>]
    /\ script' = [script EXCEPT !.calls = <<<<"create_heap", HeapStart, HeapEnd>>>>]
    /\ UNCHANGED <<panicked, dels, drain, recycled>>
    /\ UNCHANGED graphVars

Called(c) == \E k \in DOMAIN script.calls : script.calls[k] = c

\* ph.delete_min() of a scripted run: the one before the decrease_prio calls,
\* or one of the draining loop after all of them.
ScriptDeleteMin ==
    /\ script.calls # <<>>
    /\ len(heap[Main]) # 0
    /\ \/ Len(script.calls) = 1
       \/ \A c \in DecreaseCalls : Called(<<"decrease_prio", c[1], c[2]>>)
    /\ DeleteMinCall(Main)
    /\ script' = [calls |-> Append(script.calls, <<"delete_min">>),
                  out |-> Append(script.out, delete_min(arena, heap[Main]).ret)]

\* ph.decrease_prio(&key, delta) of a scripted run: each of the four calls
\* once, in any order, after the first delete_min.
ScriptDecreasePrio(key, delta) ==
    /\ Len(script.calls) >= 2
    /\ ~Called(<<"decrease_prio", key, delta>>)
    /\ DecreasePrioCall(Main, key, delta)
    /\ script' = [script EXCEPT !.calls = Append(@, <<"decrease_prio", key, delta>>)]

NextScript ==
    \/ CreateHeap
    \/ ScriptDeleteMin
    \/ \E c \in DecreaseCalls : ScriptDecreasePrio(c[1], c[2])

SpecScript == Init /\ [][NextScript]_vars

\* Two heaps that are filled, merged, popped and dropped.
NextDrop ==
    \/ \E h \in HeapIds, prio \in Prios : Insert(h, NewKey, prio)
    \/ \E self \in HeapIds, other \in HeapIds : Merge(self, other)
    \/ \E h \in HeapIds : DeleteMin(h)
    \/ \E h \in HeapIds : Drop(h)

SpecDrop == Init /\ [][NextDrop]_vars

\* One heap whose keys repeat, and a key that no node holds.
MaxKey == 2
Keys == 1..MaxKey
AbsentKey == MaxKey + 1

NextKeys ==
    \/ \E key \in Keys, prio \in Prios : Insert(Main, key, prio)
    \/ DeleteMin(Main)
    \/ \E key \in Keys \cup {AbsentKey}, delta \in Prios : DecreasePrio(Main, key, delta)

SpecKeys == Init /\ [][NextKeys]_vars

\* One heap whose priorities are also raised through update_prio.
NextRaise ==
    \/ \E prio \in Prios : Insert(Main, NewKey, prio)
    \/ DeleteMin(Main)
    \/ \E i \in DOMAIN elmts, p \in Prios : UpdatePrio(Main, i, p)
    \/ \E i \in DOMAIN elmts, p \in Prios : UpdateRaise(Main, i, p)

SpecRaise == Init /\ [][NextRaise]_vars

\* One heap whose handles are also invalidated and used after that, or after
\* their node was returned.
NextElmt ==
    \/ \E prio \in Prios : Len(arena) < MaxElmtNodes /\ InsertAlloc(Main, NewKey, prio)
    \/ DeleteMin(Main)
    \/ FindMin(Main)
    \/ \E i \in DOMAIN elmts : Invalidate(i)
    \/ \E i \in DOMAIN elmts, p \in Prios : UpdateNone(Main, i, p)
    \/ \E i \in DOMAIN elmts, p \in Prios : UpdateStale(Main, i, p)

SpecElmt == Init /\ [][NextElmt]_vars

\* ------------------------------------------------------------------ graph operations
NodeIds == 0..MaxId
Weights == 0..MaxWeight

\* graph.add_weighted_edges(node1, node2, weight), before any algorithm runs
AddEdge(node1, node2, weight) ==
    /\ run.pc = "build"
    /\ graph.n_edges < 2 * MaxEdges
    /\ graph' = add_weighted_edges(graph, node1, node2, weight)
    /\ UNCHANGED <<run, heapVars>>

\* graph.dijkstra(src) enters its loop (or panics on nodes[src])
DijkstraStart(src) ==
    /\ run.pc = "build"
    /\ run' = dij_start(graph, src)
    /\ UNCHANGED <<graph, heapVars>>

\* one round of the loop of dijkstra
DijkstraStep ==
    /\ run.pc = "loop" /\ run.alg = "dijkstra"
    /\ len(run.pq) # 0
    /\ run' = dij_iter(graph, run)
    /\ UNCHANGED <<graph, heapVars>>

\* dijkstra returns
DijkstraReturn ==
    /\ run.pc = "loop" /\ run.alg = "dijkstra"
    /\ len(run.pq) = 0
    /\ run' = dij_finish(run)
    /\ UNCHANGED <<graph, heapVars>>

\* mst_prim(&graph, src) enters its loop
PrimStart(src) ==
    /\ run.pc = "build"
    /\ run' = prim_start(graph, src)
    /\ UNCHANGED <<graph, heapVars>>

\* one round of the loop of mst_prim
PrimStep ==
    /\ run.pc = "loop" /\ run.alg = "prim"
    /\ len(run.pq) # 0
    /\ run' = prim_iter(graph, run)
    /\ UNCHANGED <<graph, heapVars>>

\* mst_prim builds the result graph and returns
PrimReturn ==
    /\ run.pc = "loop" /\ run.alg = "prim"
    /\ len(run.pq) = 0
    /\ run' = prim_finish(run)
    /\ UNCHANGED <<graph, heapVars>>

NextGraph ==
    \/ \E node1 \in NodeIds, node2 \in NodeIds, weight \in Weights :
          AddEdge(node1, node2, weight)
    \/ \E src \in NodeIds : DijkstraStart(src)
    \/ DijkstraStep
    \/ DijkstraReturn
    \/ \E src \in NodeIds : PrimStart(src)
    \/ PrimStep
    \/ PrimReturn

SpecGraph == Init /\ [][NextGraph]_vars

\* A call of dijkstra runs on: the loop makes its next round, and returns
\* when the queue is empty. The graphs have up to FairEdges edges.
FairEdges == 2

NextDijkstra ==
    \/ \E node1 \in NodeIds, node2 \in NodeIds, weight \in Weights :
          graph.n_edges < 2 * FairEdges /\ AddEdge(node1, node2, weight)
    \/ \E src \in NodeIds : DijkstraStart(src)
    \/ DijkstraStep
    \/ DijkstraReturn

SpecDijkstraFair ==
    Init /\ [][NextDijkstra]_vars /\ WF_vars(DijkstraStep) /\ WF_vars(DijkstraReturn)

\* Graphs of several components for mst_prim: edges among the ids of NodeIds
\* and an edge between the two ids that follow them.
NextForest ==
    \/ \E node1 \in NodeIds, node2 \in NodeIds, weight \in Weights :
          AddEdge(node1, node2, weight)
    \/ \E weight \in Weights : AddEdge(MaxId + 1, MaxId + 2, weight)
    \/ \E src \in NodeIds : PrimStart(src)
    \/ PrimStep
    \/ PrimReturn

SpecForest == Init /\ [][NextForest]_vars

\* ------------------------------------------------------------------ tree structure
RECURSIVE closure(_, _, _)
\* The nodes reached from the set S over first-child and next-sibling links.
closure(a, S, fuel) ==
    LET T == S \cup {a[n].left : n \in S} \cup {a[n].right : n \in S}
        U == T \ {None}
    IN  IF fuel = 0 \/ U = S THEN U ELSE closure(a, U, fuel - 1)

Reach(a, root) == closure(a, {root} \ {None}, Len(a))

RECURSIVE siblings(_, _, _)
\* The child list that starts at node n, in list order.
siblings(a, n, fuel) ==
    IF n = None \/ fuel = 0 THEN <<>> ELSE <<n>> \o siblings(a, a[n].right, fuel - 1)

ChildList(a, p) == siblings(a, a[p].left, Len(a))

Range(f) == {f[x] : x \in DOMAIN f}

NonDecreasing(q) == \A j \in 1..(Len(q) - 1) : q[j] <= q[j + 1]

\* priority(parent(n)) <= priority(n) for every node below the root of heap h
HeapOrdered(a, self) ==
    \A p \in Reach(a, self.root) : \A c \in Range(ChildList(a, p)) : a[p].prio <= a[c].prio

\* ------------------------------------------------------------------ claims C1 - C7

\* C1: after any sequence of insert, merge, delete_min, decrease_prio with a
\* non-negative delta and update_prio with a priority not greater than the
\* current one, every node below a root has a priority not smaller than its
\* parent's.
C1_HeapOrder == \A h \in HeapIds : HeapOrdered(arena, heap[h])

\* C1 witness: update_prio has cut a node that is now the root, above a tree of
\* depth two.
C1_Witness ==
    /\ last.op = "update_prio"
    /\ last.root0 # last.node
    /\ heap[Main].root = last.node
    /\ \E c \in Range(ChildList(arena, last.node)) : arena[c].left # None

\* C2: the priorities returned by consecutive delete_min calls are
\* non-decreasing, no node is returned twice, what is returned was inserted and
\* not yet returned, and a heap that has become empty has returned everything
\* that was inserted into it.
C2_SortedDrain ==
    /\ \A h \in HeapIds : NonDecreasing(drain[h])
    /\ \A n \in DOMAIN boxes : boxes[n] <= 1
    /\ \A h \in HeapIds : Cardinality(bag[h]) = ins[h] - dels[h]
    /\ \A h \in HeapIds : heap[h].root = None => bag[h] = {}

\* C2 witness: a heap of MaxNodes elements, built with a merge, drained to
\* empty by consecutive delete_min calls that returned different priorities.
C2_Witness ==
    /\ Len(drain[Main]) = MaxNodes
    /\ heap[Main].root = None
    /\ drain[Main][1] < drain[Main][MaxNodes]

\* C3: once delete_min has returned a node, every handle issued for that node
\* reports non-live (is_none) without the caller invalidating it.
C3_ReturnedHandleNotLive ==
    \A i \in DOMAIN elmts : boxes[i] > 0 => HeapElmt_is_none(elmts[i])

\* C4: a handle that was not invalidated and whose node was not returned by
\* delete_min refers to a node that carries the key the handle was issued for
\* and that is reachable from the root of the heap it was inserted or merged
\* into.
C4_HandleStability ==
    \A i \in DOMAIN elmts :
        Live(i) =>
            /\ arena[elmts[i]].key = issued[i]
            /\ \E h \in HeapIds :
                /\ elmts[i] \in bag[h]
                /\ elmts[i] \in Reach(arena, heap[h].root)

\* C4 witness: after a delete_min, a live handle refers to a node two levels
\* below the root.
C4_Witness ==
    /\ last.op = "delete_min"
    /\ \E i \in DOMAIN elmts :
        /\ Live(i)
        /\ arena[elmts[i]].parent # None
        /\ arena[arena[elmts[i]].parent].parent # None

\* C5: after update_prio(h, p) on a live handle with p not greater than the
\* node's priority, the node has priority p and find_min reports a priority
\* not greater than p.
C5_UpdateMonotone ==
    (last.op = "update_prio" /\ last.node # None) =>
        /\ arena[last.node].prio = last.prio
        /\ find_min(arena, heap[last.h]) # <<>>
        /\ find_min(arena, heap[last.h])[2] <= last.prio

\* C5 witness: the update lowered a node below the priority the old root has;
\* the node is the new root.
C5_Witness ==
    /\ last.op = "update_prio"
    /\ last.root0 # last.node
    /\ heap[Main].root = last.node
    /\ arena[last.root0].prio > last.prio

\* C6: an update_prio that raises a priority leaves the heap ordered and the
\* next drain non-decreasing.
C6_RaiseKeepsOrder ==
    /\ HeapOrdered(arena, heap[Main])
    /\ NonDecreasing(drain[Main])

\* C7: len() is the number of inserts minus the number of delete_min calls
\* that returned a value, and the number of nodes reachable from the root;
\* is_empty() holds exactly when len() is 0 and exactly when there is no root.
C7_SizeAccuracy ==
    \A h \in HeapIds :
        /\ len(heap[h]) = ins[h] - dels[h]
        /\ len(heap[h]) = Cardinality(Reach(arena, heap[h].root))
        /\ is_empty(heap[h]) <=> len(heap[h]) = 0
        /\ is_empty(heap[h]) <=> heap[h].root = None

\* C7 witness: two non-empty heaps were merged into one of MaxNodes elements
\* after a delete_min.
C7_Witness ==
    /\ last.op = "merge"
    /\ last.node # None
    /\ last.root0 # None
    /\ len(heap[Main]) = MaxNodes - 1
    /\ dels[Main] = 1

\* ------------------------------------------------------------------ graph reference
\* The half-edges <<u, v, w>> stored in the adjacency lists.
HalfEdges(g) ==
    UNION {{<<u, g.weights[u][k][1], g.weights[u][k][2]>> : k \in DOMAIN g.weights[u]} :
           u \in DOMAIN g.weights}

\* The undirected edges, each named by its place <<u, k>> in the list of its
\* smaller endpoint.
UndirectedEdges(g) ==
    UNION {{<<u, k>> : k \in {j \in DOMAIN g.weights[u] : u < g.weights[u][j][1]}} :
           u \in DOMAIN g.weights}

EdgeEnds(g, e) == {e[1], g.weights[e[1]][e[2]][1]}
EdgeWeight(g, e) == g.weights[e[1]][e[2]][2]

Min(S) == CHOOSE x \in S : \A y \in S : x <= y

RECURSIVE bellman_ford(_, _, _)
\* Shortest distances by repeated relaxation of every half-edge; W_max stands
\* for "no path".
bellman_ford(g, d, rounds) ==
    IF rounds = 0 THEN d
    ELSE bellman_ford(g,
            [v \in DOMAIN d |->
                Min({d[v]} \cup {d[e[1]] + e[3] :
                        e \in {x \in HalfEdges(g) : x[2] = v /\ d[x[1]] # W_max}})],
            rounds - 1)

\* The minimum over all paths from src of the sum of the edge weights.
ShortestDist(g, src) ==
    LET V == DOMAIN g.weights \cup {src}
    IN  bellman_ford(g, [v \in V |-> IF v = src THEN 0 ELSE W_max], Cardinality(V))

Reachable(g, src, v) == v \in DOMAIN ShortestDist(g, src) /\ ShortestDist(g, src)[v] # W_max

RECURSIVE SumWeights(_, _)
SumWeights(g, T) ==
    IF T = {} THEN 0
    ELSE LET e == CHOOSE x \in T : TRUE
         IN  EdgeWeight(g, e) + SumWeights(g, T \ {e})

RECURSIVE joined(_, _, _, _)
\* The nodes joined to those of S by the edges of T.
joined(g, T, S, fuel) ==
    LET U == S \cup UNION {EdgeEnds(g, e) : e \in {x \in T : EdgeEnds(g, x) \cap S # {}}}
    IN  IF fuel = 0 \/ U = S THEN U ELSE joined(g, T, U, fuel - 1)

\* The edges of T join all nodes of the graph.
Spans(g, T) ==
    \A v \in DOMAIN g.weights :
        joined(g, T, {v}, Cardinality(DOMAIN g.weights)) = DOMAIN g.weights

Connected(g) == DOMAIN g.weights # {} /\ Spans(g, UndirectedEdges(g))

SpanningTrees(g) ==
    {T \in SUBSET UndirectedEdges(g) :
        Cardinality(T) = n_nodes(g) - 1 /\ Spans(g, T)}

\* The weight of a minimum spanning tree of a connected graph.
MstWeight(g) == Min({SumWeights(g, T) : T \in SpanningTrees(g)})

\* The node ids are 0 .. n_nodes() - 1 (graph.rs: "the node indexing starts
\* from 0").
Dense(g) == DOMAIN g.weights = 0..(n_nodes(g) - 1)

DijkstraDone == run.pc = "done" /\ run.alg = "dijkstra"
PrimDone == run.pc = "done" /\ run.alg = "prim"

\* ------------------------------------------------------------------ claims C8 - C10

\* C8: when a run of dijkstra ends, the distance recorded for every node that
\* is reachable from the source is the minimum over all paths from the source
\* of the sum of the edge weights.
C8_DijkstraCorrect ==
    DijkstraDone =>
        \A v \in DOMAIN graph.weights :
            Reachable(graph, run.src, v) =>
                /\ InBounds(run.nodes, v)
                /\ At(run.nodes, v).dist = ShortestDist(graph, run.src)[v]

\* C8 witness: a finished run in which a node two hops away is nearer than
\* over its direct edge from the source.
C8_Witness ==
    /\ DijkstraDone
    /\ \E e \in HalfEdges(graph) :
        /\ e[1] = run.src
        /\ At(run.nodes, e[2]).len = 2
        /\ At(run.nodes, e[2]).dist < e[3]

\* C9: after a run of dijkstra from s, the feasible flag of the result for a
\* node id v is true exactly when v is reachable from s, s itself included.
C9_Feasibility ==
    DijkstraDone =>
        \A v \in 0..(Len(run.nodes) - 1) :
            traverse_path(run.src, v, run.nodes).feasible
                <=> (v = run.src \/ Reachable(graph, run.src, v))

\* C10 as claimed: for every connected graph and every source, the weight
\* mst_prim returns is that of a minimum spanning tree, and is the sum of the
\* weights of the edges of the result graph.
C10_PrimMinimalAnyIds ==
    (PrimDone /\ Connected(graph)) =>
        /\ run.total = MstWeight(graph)
        /\ run.total = SumWeights(run.rg, UndirectedEdges(run.rg))

\* C10 amended: the same for every connected graph whose node ids are
\* 0 .. n_nodes() - 1.
C10_PrimMinimal ==
    (PrimDone /\ Connected(graph) /\ Dense(graph)) =>
        /\ run.total = MstWeight(graph)
        /\ run.total = SumWeights(run.rg, UndirectedEdges(run.rg))

\* C10 witness: mst_prim has returned on a connected graph with a cycle whose
\* edges differ in weight, so that the tree leaves a heavier edge out.
C10_Witness ==
    /\ PrimDone /\ Connected(graph) /\ Dense(graph)
    /\ Cardinality(UndirectedEdges(graph)) > n_nodes(graph) - 1
    /\ run.total < SumWeights(graph, UndirectedEdges(graph))
    /\ run.total > 0

\* ------------------------------------------------------------------ claim C11
\* The result graph of mst_prim is a spanning tree of the input graph: n - 1
\* undirected edges counted twice by n_edges(), each one an edge of the input
\* graph, joining all its nodes.
PrimTreeShape ==
    /\ n_edges(run.rg) = 2 * (n_nodes(graph) - 1)
    /\ Cardinality(UndirectedEdges(run.rg)) = n_nodes(graph) - 1
    /\ HalfEdges(run.rg) \subseteq HalfEdges(graph)
    /\ DOMAIN run.rg.weights = DOMAIN graph.weights
    /\ Spans(run.rg, UndirectedEdges(run.rg))
    /\ (run.src \in DOMAIN graph.weights => run.src \in DOMAIN run.rg.weights)

\* C11 as claimed: for every connected graph with n nodes the result graph of
\* mst_prim has exactly n - 1 undirected edges (n_edges() = 2 * (n - 1)), each
\* an edge of the input graph, and they connect all n nodes, the source
\* included, without a cycle.
C11_PrimTreeAnyIds ==
    (PrimDone /\ Connected(graph)) => PrimTreeShape

\* C11 amended: the same for every connected graph whose node ids are
\* 0 .. n_nodes() - 1.
C11_PrimTree ==
    (PrimDone /\ Connected(graph) /\ Dense(graph)) => PrimTreeShape

\* C11 witness: mst_prim has returned a two-edge tree on a connected graph of
\* three nodes and three edges.
C11_Witness ==
    /\ PrimDone /\ Connected(graph) /\ Dense(graph)
    /\ n_nodes(graph) = 3
    /\ Cardinality(UndirectedEdges(graph)) = 3
    /\ Cardinality(UndirectedEdges(run.rg)) = 2

\* ------------------------------------------------------------------ claims C12 - C14
RECURSIVE SortMerge(_, _)
\* The merge of two sorted sequences.
SortMerge(p, q) ==
    IF p = <<>> THEN q
    ELSE IF q = <<>> THEN p
    ELSE IF Head(p) <= Head(q) THEN <<Head(p)>> \o SortMerge(Tail(p), q)
    ELSE <<Head(q)>> \o SortMerge(p, Tail(q))

\* The smaller of two find_min results by priority, an absent one giving way.
MinOfTwo(fa, fb) ==
    IF fa = <<>> THEN fb
    ELSE IF fb = <<>> THEN fa
    ELSE IF fa[2] <= fb[2] THEN fa ELSE fb

\* C12: the heap returned by a.merge(b) has len(a) + len(b) elements and its
\* find_min priority is the smaller of the operands' minimum priorities (that
\* of the other operand when one is empty, absent when both are).
C12_MergeAdditive ==
    [][\A self \in HeapIds, other \in HeapIds :
          Merge(self, other) =>
              LET fa == find_min(arena, heap[self])
                  fb == find_min(arena, heap[other])
                  fm == find_min(arena', heap'[Main])
              IN  /\ len(heap'[Main]) = len(heap[self]) + len(heap[other])
                  /\ (fm = <<>>) = (fa = <<>> /\ fb = <<>>)
                  /\ fm # <<>> => fm[2] = MinOfTwo(fa, fb)[2]]_vars

\* C12 witness: two non-empty heaps were merged and the root of the argument,
\* the smaller one, became the root.
C12_Witness ==
    /\ last.op = "merge"
    /\ last.root0 # None /\ last.node # None
    /\ arena[last.node].prio < arena[last.root0].prio
    /\ heap[Main].root = last.node
    /\ heap[Main].len >= 3

\* C13: draining a.merge(b) with delete_min gives the sorted merge of the
\* priorities obtained by draining a and b separately.
C13_MergeDrain ==
    [][\A self \in HeapIds, other \in HeapIds :
          Merge(self, other) =>
              drain_all(arena', heap'[Main])
                  = SortMerge(drain_all(arena, heap[self]), drain_all(arena, heap[other]))]_vars

\* C13 witness: a merge of two heaps of two elements each, with priorities
\* that interleave.
C13_Witness ==
    /\ last.op = "merge"
    /\ last.root0 # None /\ last.node # None
    /\ heap[Main].len = 4
    /\ Cardinality(Reach(arena, last.root0)) >= 1
    /\ \E n \in bag[Main] : arena[n].prio > arena[last.root0].prio
    /\ \E n \in bag[Main] : arena[n].prio > arena[last.node].prio
    /\ arena[last.root0].prio # arena[last.node].prio

\* C14 as claimed: when merge melds two non-empty heaps whose roots have equal
\* priorities the receiver's root is the root of the result, and on insert of
\* a priority equal to the root's the existing root stays the root.
C14_TieReceiverWins ==
    /\ (/\ last.op = "merge"
        /\ last.root0 # None /\ last.node # None
        /\ arena[last.root0].prio = arena[last.node].prio)
            => heap[Main].root = last.root0
    /\ (/\ last.op = "insert"
        /\ last.root0 # None
        /\ arena[last.root0].prio = last.prio)
            => heap[last.h].root = last.root0

\* C14 amended: on equal priorities the root of the argument is the root of
\* the merged heap, and an inserted node whose priority equals the root's
\* becomes the root.
C14_TieArgumentWins ==
    /\ (/\ last.op = "merge"
        /\ last.root0 # None /\ last.node # None
        /\ arena[last.root0].prio = arena[last.node].prio)
            => heap[Main].root = last.node
    /\ (/\ last.op = "insert"
        /\ last.root0 # None
        /\ arena[last.root0].prio = last.prio)
            => heap[last.h].root = last.node

\* C14 witness: two non-empty heaps with equal root priorities were merged.
C14_Witness ==
    /\ last.op = "merge"
    /\ last.root0 # None /\ last.node # None
    /\ arena[last.root0].prio = arena[last.node].prio
    /\ heap[Main].len >= 3

\* ------------------------------------------------------------------ claims C15 - C18
\* What the caller's heap holds: its root and len, and every node in it with
\* its priority and links.
HeapView == <<heap[Main], [n \in bag[Main] |-> arena[n]]>>

\* C15: update_prio through a handle that is not live, one that was
\* invalidated or one whose node delete_min has returned, changes no node's
\* priority or links, nor the root, nor len.
C15_NonLiveUpdateNoOp ==
    [][\A i \in DOMAIN elmts, p \in Prios :
          (UpdateNone(Main, i, p) \/ UpdateStale(Main, i, p))
              => (HeapView' = HeapView /\ ~panicked')]_vars

\* C16: HeapElmt::none makes the handle report non-live from then on, leaves
\* the tree, the priorities and len as they are, and a second call on the
\* same handle changes nothing.
C16_Invalidate ==
    [][/\ \A i \in DOMAIN elmts :
            Invalidate(i) =>
                /\ HeapElmt_is_none(elmts'[i])
                /\ HeapView' = HeapView
                /\ \A j \in DOMAIN elmts \ {i} : elmts'[j] = elmts[j]
                /\ HeapElmt_is_none(elmts[i]) => elmts' = elmts
       /\ \A i \in DOMAIN elmts : HeapElmt_is_none(elmts[i]) => HeapElmt_is_none(elmts'[i])]_vars

\* C16 witness: a handle of a heap that still holds nodes was invalidated a
\* second time.
C16_Witness ==
    /\ last.op = "none"
    /\ last.node = None
    /\ heap[Main].len >= 2
    /\ \E i \in DOMAIN elmts : HeapElmt_is_none(elmts[i]) /\ i \in bag[Main]

\* C17: on a non-empty heap find_min changes nothing and reports the key and
\* priority of the root, and the delete_min that follows returns that pair and
\* takes one off len.
C17_FindMinThenDelete ==
    [][/\ (FindMin(Main) /\ ~is_empty(heap[Main])) =>
            /\ HeapView' = HeapView
            /\ last'.ret = <<arena[heap[Main].root].key, arena[heap[Main].root].prio>>
       /\ (DeleteMin(Main) /\ last.op = "find_min" /\ ~is_empty(heap[Main])) =>
            /\ last'.ret = last.ret
            /\ len(heap'[Main]) = len(heap[Main]) - 1]_vars

\* C17 witness: delete_min has returned the pair the find_min before it
\* reported, from a heap that held more than one node.
C17_Witness ==
    /\ last.op = "delete_min"
    /\ last.seen # <<>>
    /\ last.ret = last.seen
    /\ heap[Main].len >= 1

\* C18: on an empty heap, new or drained, find_min and delete_min return
\* None and the heap stays empty with len 0.
C18_EmptyHeap ==
    [][((FindMin(Main) \/ DeleteMin(Main)) /\ is_empty(heap[Main])) =>
            /\ last'.ret = <<>>
            /\ heap' = heap
            /\ is_empty(heap'[Main]) /\ len(heap'[Main]) = 0
            /\ heap'[Main].root = None
            /\ ~panicked']_vars

\* C18 witness: delete_min was called on a heap that had been drained, after
\* a find_min on it.
C18_Witness ==
    /\ last.op = "delete_min"
    /\ last.ret = <<>>
    /\ last.seen = <<>>
    /\ dels[Main] >= 2
    /\ heap[Main].len = 0

\* ------------------------------------------------------------------ claims C19 - C20
\* The weight of the lightest edge between u and v.
LightestEdge(g, u, v) == Min({e[3] : e \in {x \in HalfEdges(g) : x[1] = u /\ x[2] = v}})

RECURSIVE PathWeight(_, _)
\* The sum, along a path, of the lightest edge between each two neighbours.
PathWeight(g, path) ==
    IF Len(path) < 2 THEN 0
    ELSE LightestEdge(g, path[1], path[2]) + PathWeight(g, Tail(path))

\* C19: the path of every destination reported feasible starts with the
\* source, ends with the destination, has one node more than the hop count,
\* goes along edges of the graph, and the lightest edges between its
\* consecutive nodes sum to the reported distance.
C19_PathValid ==
    DijkstraDone =>
        \A v \in 0..(Len(run.nodes) - 1) :
            LET sp == get(run.src, v, run.nodes)
            IN  sp.feasible =>
                    /\ sp.path # <<>>
                    /\ sp.path[1] = run.src
                    /\ sp.path[Len(sp.path)] = v
                    /\ Len(sp.path) = At(run.nodes, v).len + 1
                    /\ \A k \in 1..(Len(sp.path) - 1) :
                          \E e \in HalfEdges(graph) :
                              e[1] = sp.path[k] /\ e[2] = sp.path[k + 1]
                    /\ PathWeight(graph, sp.path) = sp.dist

\* C19 witness: a finished run with a feasible path of two hops or more, one
\* hop of which has parallel edges of different weights.
C19_Witness ==
    /\ DijkstraDone
    /\ \E v \in 0..(Len(run.nodes) - 1) :
          LET sp == get(run.src, v, run.nodes)
          IN  /\ sp.feasible
              /\ Len(sp.path) >= 3
              /\ \E k \in 1..(Len(sp.path) - 1) :
                    \E e1 \in HalfEdges(graph), e2 \in HalfEdges(graph) :
                        /\ e1[1] = sp.path[k] /\ e1[2] = sp.path[k + 1]
                        /\ e2[1] = sp.path[k] /\ e2[2] = sp.path[k + 1]
                        /\ e1[3] # e2[3]

\* The feasibility, distance and node sequence of a ShortestPath.
Report(sp) == <<sp.feasible, sp.dist, sp.path>>

\* C20: for every source and node id i, get_all()[i], get(i),
\* get_list(&[i])[0] and sssp_dijkstra(src, &[i])[0] report the same
\* feasibility, distance and node sequence.
C20_FormsAgree ==
    DijkstraDone =>
        \A i \in 0..(Len(run.nodes) - 1) :
            /\ Report(At(get_all(run.src, run.nodes), i)) = Report(get(run.src, i, run.nodes))
            /\ Report(get_list(run.src, <<i>>, run.nodes)[1]) = Report(get(run.src, i, run.nodes))
            /\ Report(sssp_dijkstra(run.src, <<i>>, run.nodes)[1])
                  = Report(get(run.src, i, run.nodes))

\* ------------------------------------------------------------------ claims C21 - C22
\* C21: on a connected graph mst_prim returns, for any two sources, the same
\* total weight and result graphs with the same n_nodes() and n_edges().
C21_PrimSourceInvariant ==
    (PrimDone /\ Connected(graph)) =>
        \A s2 \in NodeIds :
            LET r2 == mst_prim(graph, s2)
            IN  /\ r2.pc = "done"
                /\ r2.total = run.total
                /\ n_nodes(r2.rg) = n_nodes(run.rg)
                /\ n_edges(r2.rg) = n_edges(run.rg)

\* C21 witness: two sources of a connected graph of three nodes give trees
\* with different edges.
C21_Witness ==
    /\ PrimDone /\ Connected(graph) /\ Dense(graph)
    /\ n_nodes(graph) >= 3
    /\ \E s2 \in DOMAIN graph.weights :
          /\ s2 # run.src
          /\ run.src \in DOMAIN graph.weights
          /\ HalfEdges(mst_prim(graph, s2).rg) # HalfEdges(run.rg)

\* The nodes of the connected component of v.
Component(g, v) == joined(g, UndirectedEdges(g), {v}, Cardinality(DOMAIN g.weights))

Components(g) == {Component(g, v) : v \in DOMAIN g.weights}

\* The undirected edges of g with both ends in C.
EdgesIn(g, C) == {e \in UndirectedEdges(g) : EdgeEnds(g, e) \subseteq C}

\* T joins all nodes of C with one edge fewer than C has nodes.
IsTreeOn(g, T, C) ==
    /\ Cardinality(T) = Cardinality(C) - 1
    /\ joined(g, T, {CHOOSE v \in C : TRUE}, Cardinality(C)) = C

\* The weight of a minimum spanning tree of the component C.
ComponentMst(g, C) ==
    Min({SumWeights(g, T) : T \in {X \in SUBSET EdgesIn(g, C) : IsTreeOn(g, X, C)}})

RECURSIVE SumMst(_, _)
SumMst(g, Cs) ==
    IF Cs = {} THEN 0
    ELSE LET C == CHOOSE X \in Cs : TRUE
         IN  ComponentMst(g, C) + SumMst(g, Cs \ {C})

\* The result of mst_prim is a minimum spanning forest of the graph.
PrimForest ==
    /\ HalfEdges(run.rg) \subseteq HalfEdges(graph)
    /\ Cardinality(UndirectedEdges(run.rg))
          = n_nodes(graph) - Cardinality(Components(graph))
    /\ \A C \in Components(graph) :
          /\ C \subseteq DOMAIN run.rg.weights
          /\ IsTreeOn(run.rg, EdgesIn(run.rg, C), C)
          /\ SumWeights(run.rg, EdgesIn(run.rg, C)) = ComponentMst(graph, C)
    /\ run.total = SumMst(graph, Components(graph))

Disconnected(g) == Cardinality(Components(g)) >= 2

\* C22 as claimed: on a disconnected graph the result graph of mst_prim holds,
\* for each connected component, a spanning tree of it of minimum weight, with
\* nodeCount minus number-of-components edges in total, and the returned
\* weight is the sum of the components' minimum spanning tree weights.
C22_PrimForestAnyIds ==
    (PrimDone /\ Disconnected(graph)) => PrimForest

\* C22 amended: the same for every disconnected graph whose node ids are
\* 0 .. n_nodes() - 1.
C22_PrimForest ==
    (PrimDone /\ Disconnected(graph) /\ Dense(graph)) => PrimForest

\* C22 witness: mst_prim has returned on a graph of two components, one of
\* them with parallel edges of different weights.
C22_Witness ==
    /\ PrimDone /\ Disconnected(graph) /\ Dense(graph)
    /\ Cardinality(UndirectedEdges(graph)) > Cardinality(UndirectedEdges(run.rg))
    /\ run.total < SumWeights(graph, UndirectedEdges(graph))
    /\ Cardinality(UndirectedEdges(run.rg)) = 2

\* ------------------------------------------------------------------ claims C23 - C26
RECURSIVE SumLen(_, _)
SumLen(w, S) ==
    IF S = {} THEN 0
    ELSE LET u == CHOOSE x \in S : TRUE
         IN  Len(w[u]) + SumLen(w, S \ {u})

\* The number of half-edges stored in the adjacency lists.
HalfEdgeCount(g) == SumLen(g.weights, DOMAIN g.weights)

\* C23: after any sequence of add_weighted_edges calls, calls with
\* node1 = node2 included, n_edges() equals the number of half-edges stored
\* in the adjacency lists.
C23_EdgeCount == n_edges(graph) = HalfEdgeCount(graph)

C25_SelfLoopRejected ==
    [][\A u \in NodeIds, w \in Weights :
          AddEdge(u, u, w) =>
              /\ graph'.weights = graph.weights
              /\ HalfEdgeCount(graph') = HalfEdgeCount(graph)
              /\ n_nodes(graph') = n_nodes(graph)]_vars

\* C25 witness: a self-loop call has been made on a graph that has edges.
C25_Witness ==
    /\ n_edges(graph) > HalfEdgeCount(graph)
    /\ HalfEdgeCount(graph) > 0

\* The weights of the entries of u's list that lead to v, in list order.
WeightsTo(g, u, v) ==
    LET l == neighbours(g, u)
        F[k \in 0..Len(l)] ==
            IF k = 0 THEN <<>>
            ELSE IF l[k][1] = v THEN Append(F[k - 1], l[k][2]) ELSE F[k - 1]
    IN  F[Len(l)]

S2Calls ==
    <<<<"create_heap", HeapStart, HeapEnd>>, <<"delete_min">>,
      <<"decrease_prio", 8, 4>>, <<"decrease_prio", 6, 3>>,
      <<"decrease_prio", 9, 3>>, <<"decrease_prio", 10, 2>>>>

\* tests.rs, decrease_prio: key_exp and prio_exp, as pairs
S2Expected ==
    <<<<2, 2>>, <<6, 3>>, <<3, 3>>, <<8, 4>>, <<4, 4>>, <<5, 5>>, <<9, 6>>,
      <<7, 7>>, <<10, 8>>>>

\* C27: from a heap holding (i, i) for i = 1..10 inserted in that order,
\* after one delete_min and decrease_prio(&8, 4), (&6, 3), (&9, 3), (&10, 2)
\* in this order, the following delete_min calls return the keys
\* 2, 6, 3, 8, 4, 5, 9, 7, 10 with the priorities 2, 3, 3, 4, 4, 5, 6, 7, 8.
C27_ScenarioS2 ==
    (Len(script.calls) >= Len(S2Calls) /\ SubSeq(script.calls, 1, Len(S2Calls)) = S2Calls)
        => /\ script.out[1] = <<1, 1>>
           /\ \A k \in 2..Len(script.out) : script.out[k] = S2Expected[k - 1]
           /\ Len(script.out) <= 1 + Len(S2Expected)

\* C27 witness: the script was followed in the order of the test and the
\* heap has been drained.
C27_Witness ==
    /\ Len(script.calls) = Len(S2Calls) + 9
    /\ SubSeq(script.calls, 1, Len(S2Calls)) = S2Calls
    /\ Len(script.out) = 10
    /\ len(heap[Main]) = 0

\* ------------------------------------------------------------------ claim C28
\* The handles of the nodes that heap h holds.
HandlesIn(h) == {i \in DOMAIN elmts : Live(i) /\ elmts[i] \in bag[h]}

DistinctKeys(h) ==
    \A m \in bag[h], n \in bag[h] : arena[m].key = arena[n].key => m = n

\* C28: on a heap with pairwise distinct keys, update_prio through the
\* handle of the node with key k to a priority p and
\* decrease_prio(&k, current priority - p) give the same heap: the same
\* root and len and the same key, priority and links in every node.
C28_HandleKeyEquivalent ==
    DistinctKeys(Main) =>
        \A i \in HandlesIn(Main), p \in Prios :
            LET n == elmts[i]
            IN  update_prio(arena, heap[Main], n, p)
                    = decrease_prio(arena, heap[Main], arena[n].key, arena[n].prio - p)

\* C28 witness: a node with an elder sibling is cut by the update and
\* becomes the root.
C28_Witness ==
    /\ DistinctKeys(Main)
    /\ \E i \in HandlesIn(Main), p \in Prios :
          LET n == elmts[i]
              r == update_prio(arena, heap[Main], n, p)
          IN  /\ p < arena[n].prio
              /\ arena[n].parent # None
              /\ arena[arena[n].parent].left # n
              /\ r.heap.root = n
              /\ r = decrease_prio(arena, heap[Main], arena[n].key, arena[n].prio - p)

\* ------------------------------------------------------------------ claims C29 - C30
\* The nodes that some heap holds: inserted, not returned, heap not dropped.
Owned == UNION {bag[h] : h \in HeapIds}

\* C29: every node allocated by insert is freed exactly once, when
\* delete_min returns it or when the heap that holds it is dropped; the
\* operands consumed by merge free no node when they are dropped, and
\* dropping the merged heap frees every node of both.
C29_DropSafety ==
    [][/\ \A n \in DOMAIN boxes' : boxes'[n] = IF n \in Owned' THEN 0 ELSE 1
       /\ \A h \in HeapIds :
             Drop(h) => \A n \in DOMAIN boxes :
                           boxes'[n] = boxes[n] + IF n \in bag[h] THEN 1 ELSE 0
       /\ \A self \in HeapIds, other \in HeapIds :
             Merge(self, other) => (boxes' = boxes /\ Owned' = Owned)
       /\ \A h \in HeapIds :
             DeleteMin(h) => \A n \in DOMAIN boxes :
                                boxes'[n] = boxes[n] + IF n = heap[h].root THEN 1 ELSE 0]_vars

\* C29 witness: a heap merged from two heaps of two nodes each was dropped
\* and every node is freed once.
C29_Witness ==
    /\ last.op = "drop"
    /\ Len(last.seen) = 2
    /\ last.seen[1] # None /\ last.seen[2] # None
    /\ Len(boxes) = 4
    /\ \A n \in DOMAIN boxes : boxes[n] = 1
    /\ last.prio >= 3

RECURSIVE Height(_, _, _)
\* The number of levels of the tree below and including node n.
Height(a, n, fuel) ==
    IF n = None \/ fuel = 0 THEN 0
    ELSE LET hs == {Height(a, c, fuel - 1) : c \in Range(ChildList(a, n))}
         IN  1 + IF hs = {} THEN 0 ELSE CHOOSE x \in hs : \A y \in hs : y <= x

\* The deepest nesting of remove calls when heap h is dropped.
DropDepth(h) == drop(arena, boxes, heap[h]).depth

\* C30: the nesting of calls used while a heap is freed does not depend on
\* the depth of its tree: a taller tree is freed with no deeper nesting than
\* a lower one.
C30_DropDepthIndependent ==
    \A h1 \in HeapIds, h2 \in HeapIds :
        (heap[h1].root # None /\ heap[h2].root # None
            /\ Height(arena, heap[h1].root, Len(arena))
                 < Height(arena, heap[h2].root, Len(arena)))
        => DropDepth(h2) <= DropDepth(h1)

\* ------------------------------------------------------------------ claim C31
\* How often node n occurs in the sequence q.
Occurrences(q, n) == Cardinality({k \in DOMAIN q : q[k] = n})

\* The tree of heap `self`: the root has neither parent nor next sibling and
\* is in no child list; every other node reached over left / right links
\* has a parent that is reached too, occurs once in that parent's child list
\* and in no other child list.
WellFormed(a, self) ==
    LET R == Reach(a, self.root)
    IN  self.root # None =>
            /\ a[self.root].parent = None
            /\ a[self.root].right = None
            /\ \A p \in R : Occurrences(ChildList(a, p), self.root) = 0
            /\ \A n \in R \ {self.root} :
                  /\ a[n].parent \in R
                  /\ Occurrences(ChildList(a, a[n].parent), n) = 1
                  /\ \A p \in R \ {a[n].parent} : Occurrences(ChildList(a, p), n) = 0

\* C31: after every heap operation the root has neither parent nor next
\* sibling, every other reachable node has a parent and occurs exactly once
\* in exactly that parent's child list, and following child and sibling
\* links from the root never revisits a node.
C31_WellFormed == \A h \in HeapIds : WellFormed(arena, heap[h])

\* C31 witness: a delete_min has paired the three children of the old root
\* into a tree whose root has two children.
C31_Witness ==
    /\ last.op = "delete_min"
    /\ heap[Main].root # None
    /\ Len(ChildList(arena, last.root0)) = 0
    /\ Len(ChildList(arena, heap[Main].root)) = 2
    /\ Cardinality(Reach(arena, heap[Main].root)) = 3

\* ------------------------------------------------------------------ claim C32
\* The node of heap h that holds `key`, None when there is none.
NodeOfKey(h, key) ==
    IF \E n \in bag[h] : arena[n].key = key
    THEN CHOOSE n \in bag[h] : arena[n].key = key
    ELSE None

\* Only the priority of node n was written: every link, the root and len
\* are as before.
OnlyPrio(n, p) ==
    /\ arena' = [arena EXCEPT ![n].prio = p]
    /\ heap' = heap

\* The steps of C32 for a node n whose priority becomes p: n is the root, or
\* keep(p, parent's priority) holds.
NoCutFrame(Keep(_, _)) ==
    /\ \A key \in 1..MaxNodes, delta \in Prios :
          LET n == NodeOfKey(Main, key)
              p == arena[n].prio - delta
          IN  (/\ last'.op = "decrease_prio"
               /\ n # None
               /\ n = heap[Main].root \/ Keep(p, arena[arena[n].parent].prio)
               /\ DecreasePrio(Main, key, delta))
              => OnlyPrio(n, p)
    /\ \A i \in DOMAIN elmts, p \in Prios :
          LET n == elmts[i]
          IN  (/\ last'.op = "update_prio"
               /\ last'.node = n /\ last'.prio = p
               /\ n = heap[Main].root \/ Keep(p, arena[arena[n].parent].prio)
               /\ UpdatePrio(Main, i, p))
              => OnlyPrio(n, p)

GreaterOrEqual(p, q) == p >= q
Greater(p, q) == p > q

\* C32 as claimed: a decrease on a node below the root whose new priority is
\* greater than or equal to its parent's only overwrites that node's
\* priority, the root and every link are unchanged; likewise a decrease on
\* the root changes only the root's priority.
C32_NoCutFrameGe == [][NoCutFrame(GreaterOrEqual)]_vars

\* What decrease_prio and update do: the frame of C32 holds when the new
\* priority is strictly greater than the parent's.
C32_NoCutFrame == [][NoCutFrame(Greater)]_vars

\* C32 witness: decrease_prio has lowered a node below the root to a
\* priority still above its parent's and the node is where it was.
C32_Witness ==
    /\ last.op = "decrease_prio"
    /\ \E n \in bag[Main] :
          /\ arena[n].parent # None
          /\ arena[n].prio < PrioMax
          /\ arena[n].prio > arena[arena[n].parent].prio
          /\ arena[n].right # None

\* ------------------------------------------------------------------ claim C33
RECURSIVE Detach(_, _)
\* The children in cs cut loose: no parent, no next sibling.
Detach(a, cs) ==
    IF cs = <<>> THEN a
    ELSE Detach([a EXCEPT ![Head(cs)].parent = None, ![Head(cs)].right = None], Tail(cs))

RECURSIVE PairUp(_, _, _, _)
\* First pass over the child list cs from place k: (c1, c2), (c3, c4), ...
\* are melded left to right, an unpaired last child is carried through.
PairUp(a, cs, k, trees) ==
    IF k > Len(cs) THEN [arena |-> a, trees |-> trees]
    ELSE IF k = Len(cs) THEN [arena |-> a, trees |-> Append(trees, cs[k])]
    ELSE LET m == merge_nodes(a, cs[k], cs[k + 1])
         IN  PairUp(m.arena, cs, k + 2, Append(trees, m.root))

RECURSIVE FoldLeft(_, _, _, _)
\* Second pass: the trees before place k + 1 are melded into the
\* accumulator, from the right to the left.
FoldLeft(a, acc, trees, k) ==
    IF k = 0 THEN [arena |-> a, root |-> acc]
    ELSE LET m == merge_nodes(a, acc, trees[k])
         IN  FoldLeft(m.arena, m.root, trees, k - 1)

\* The two-pass scheme on the children of the root of `self`.
TwoPass(a, self) ==
    LET cs == ChildList(a, self.root)
        a0 == Detach([a EXCEPT ![self.root].left = None], cs)
        fp == PairUp(a0, cs, 1, <<>>)
        sp == FoldLeft(fp.arena, fp.trees[Len(fp.trees)], fp.trees, Len(fp.trees) - 1)
    IN  IF cs = <<>>
        THEN [arena |-> a0, heap |-> [root |-> None, len |-> self.len - 1]]
        ELSE [arena |-> sp.arena, heap |-> [root |-> sp.root, len |-> self.len - 1]]

Compared(a, self, key) ==
    IF self.root = None THEN <<>>
    ELSE IF a[self.root].key = key THEN <<self.root>>
    ELSE <<self.root>> \o search_order(a, key, a[self.root].left, <<>>, <<>>)

\* C34: decrease_prio(key, delta) ends after comparing each node of the heap
\* at most once; when no node holds the key the heap is unchanged; when some
\* node does, one node with that key has its priority lowered by delta, no
\* other priority and no key changes, and the heap holds the same nodes and
\* has the same len.
C34_DecreaseFrame ==
    \A key \in Keys \cup {AbsentKey}, delta \in Prios :
        LET r == decrease_prio(arena, heap[Main], key, delta)
            met == Compared(arena, heap[Main], key)
            holders == {n \in bag[Main] : arena[n].key = key}
        IN  /\ ~r.panic
            /\ \A n \in Range(met) : n \in bag[Main] /\ Occurrences(met, n) = 1
            /\ holders = {} => (r.arena = arena /\ r.heap = heap[Main])
            /\ holders # {} =>
                  /\ \E n \in holders :
                        /\ r.arena[n].prio = arena[n].prio - delta
                        /\ \A m \in DOMAIN arena \ {n} : r.arena[m].prio = arena[m].prio
                        /\ met[Len(met)] = n
                  /\ \A m \in DOMAIN arena : r.arena[m].key = arena[m].key
                  /\ Reach(r.arena, r.heap.root) = bag[Main]
                  /\ WellFormed(r.arena, r.heap)
                  /\ r.heap.len = heap[Main].len

\* C34 witness: two nodes below the root hold the same key, the deeper one
\* first in the child lists, and a decrease of that key cuts the one the
\* scan meets first.
C34_Witness ==
    \E m \in bag[Main], n \in bag[Main] :
        /\ m # n
        /\ arena[m].key = arena[n].key
        /\ arena[heap[Main].root].key # arena[n].key
        /\ arena[m].parent = heap[Main].root
        /\ arena[n].parent # heap[Main].root /\ arena[n].parent # None
        /\ arena[m].prio = 1
        /\ decrease_prio(arena, heap[Main], arena[m].key, 1).heap.root = m

\* ------------------------------------------------------------------ claim C35
\* The key the next delete_min of the running call returns.
NextPop == find_min(run.a, run.pq)[1]

Visited(r) == {v \in 0..(Len(r.nodes) - 1) : At(r.nodes, v).visited}

\* C35: when the loop of dijkstra pops an entry for a node that is already
\* visited, no node's distance, predecessor, hop count or feasible flag
\* changes and nothing is inserted into the heap; and once a node is visited
\* its distance, predecessor and hop count never change again.
C35_StalePops ==
    [][(run.alg = "dijkstra" /\ run'.alg = "dijkstra") =>
          /\ (DijkstraStep /\ NextPop \in Visited(run)) =>
                /\ run'.nodes = run.nodes
                /\ run'.pc = "loop"
                /\ len(run'.pq) = len(run.pq) - 1
                /\ Len(run'.a) = Len(run.a)
          /\ \A v \in Visited(run) :
                /\ At(run'.nodes, v).visited
                /\ At(run'.nodes, v).dist = At(run.nodes, v).dist
                /\ At(run'.nodes, v).pred = At(run.nodes, v).pred
                /\ At(run'.nodes, v).len = At(run.nodes, v).len]_vars

\* C35 witness: the loop has popped more entries than there are visited
\* nodes, so one of the pops was for a node already visited.
C35_Witness ==
    /\ run.alg = "dijkstra" /\ run.pc = "loop"
    /\ Cardinality(run.freed) > Cardinality(Visited(run))

\* ------------------------------------------------------------------ claim C36
\* Every insert2 of the running call allocates one node of its arena.
Insertions == Len(run.a)

DijkstraReturned == run.pc = "done" /\ run.alg = "dijkstra" /\ len(run.pq) = 0

\* C36 as claimed: a call of dijkstra from a node of the graph ends with an
\* empty heap on every graph, and makes at most one insertion more than the
\* graph has half-edges.
C36_DijkstraTerminatesAnyIds ==
    /\ [](run.alg = "dijkstra" => Insertions <= 1 + HalfEdgeCount(graph))
    /\ (run.alg = "dijkstra" /\ run.src \in DOMAIN graph.weights) ~> DijkstraReturned

\* C36 amended: the same on every graph whose node ids are
\* 0 .. n_nodes() - 1.
C36_DijkstraTerminates ==
    /\ [](run.alg = "dijkstra" => Insertions <= 1 + HalfEdgeCount(graph))
    /\ (run.alg = "dijkstra" /\ run.src \in DOMAIN graph.weights /\ Dense(graph))
          ~> DijkstraReturned

\* C36 witness: a call has returned after more pops than the graph has
\* nodes, with one insertion for each of them.
C36_Witness ==
    /\ DijkstraReturned
    /\ Dense(graph) /\ run.src \in DOMAIN graph.weights
    /\ Cardinality(run.freed) > n_nodes(graph)
    /\ Insertions = Cardinality(run.freed)

\* ------------------------------------------------------------------ claim C37
\* The number of delete_min calls the running call has made.
Pops == Cardinality(run.freed)

\* The indices whose handle the loop of mst_prim has invalidated.
PrimPopped(r) == {i \in 0..(Len(r.nodes) - 1) : HeapElmt_is_none(At(r.nodes, i).heap)}

\* The nodes of the running call's arena that hold the key i.
NodesOfKey(i) == {n \in DOMAIN run.a : run.a[n].key = i}

RECURSIVE CallsInContract(_, _, _)
\* Along `for (u, dist) in nb` of mst_prim from the state r: whenever the body
\* changes the heap or the node vector (it has called update_prio), the
\* handle it passed is not none, its node is in the heap and was not returned
\* by delete_min, holds the neighbour's index, and had a priority strictly
\* greater than the new one, which it now has.
CallsInContract(r, node, nb) ==
    IF nb = <<>> \/ r.pc = "panic" THEN TRUE
    ELSE LET e == Head(nb)
             u == e[1]
             r1 == prim_relax_one(r, node, e)
             called == r1.pc # "panic" /\ (r1.a # r.a \/ r1.pq # r.pq \/ r1.nodes # r.nodes)
             elmt == At(r.nodes, u).heap
         IN  /\ called =>
                   /\ ~HeapElmt_is_none(elmt)
                   /\ elmt \in Reach(r.a, r.pq.root)
                   /\ elmt \notin r.freed
                   /\ r.a[elmt].key = u
                   /\ e[2] < r.a[elmt].prio
                   /\ r1.a[elmt].prio = e[2]
                   /\ ~update_prio(r.a, r.pq, elmt, e[2]).panic
             /\ CallsInContract(r1, node, Tail(nb))

\* C38: in a call of mst_prim every index whose handle is not none has its
\* node in the heap, not yet returned by delete_min, with the recorded
\* distance as its priority; and every update_prio call of the next round of
\* the loop passes such a handle and a strictly lower priority.
C38_PrimContract ==
    run.alg = "prim" =>
        /\ \A i \in 0..(Len(run.nodes) - 1) :
              LET elmt == At(run.nodes, i).heap
              IN  ~HeapElmt_is_none(elmt) =>
                      /\ elmt \in Reach(run.a, run.pq.root)
                      /\ elmt \notin run.freed
                      /\ run.a[elmt].key = i
                      /\ run.a[elmt].prio = At(run.nodes, i).dist
        /\ (run.pc = "loop" /\ len(run.pq) # 0) =>
              CallsInContract(prim_iter(SimpleGraph_new, run), NextPop,
                              neighbours(graph, NextPop))

\* C38 witness: a node in the heap was improved to distance 1 and the next
\* round improves it again, to distance 0.
C38_Witness ==
    /\ run.alg = "prim" /\ run.pc = "loop" /\ len(run.pq) # 0
    /\ \E i \in 0..(Len(run.nodes) - 1) :
          /\ ~HeapElmt_is_none(At(run.nodes, i).heap)
          /\ At(run.nodes, i).dist = 1
          /\ At(prim_iter(graph, run).nodes, i).dist = 0

\* ------------------------------------------------------------------ claim C39
\* A call of dijkstra or mst_prim is under way or over, and its source has a
\* stored half-edge.
CallFromNode == run.alg # "none" /\ run.src \in DOMAIN graph.weights

\* Every index the running call uses now is one of its state vector: the
\* source of dijkstra, and in the loop the key of the next pop and each of
\* its neighbours.
IndicesValid ==
    /\ run.pc # "panic"
    /\ Len(run.nodes) = n_nodes(graph)
    /\ run.alg = "dijkstra" => InBounds(run.nodes, run.src)
    /\ (run.pc = "loop" /\ len(run.pq) # 0) =>
          /\ InBounds(run.nodes, NextPop)
          /\ \A k \in DOMAIN neighbours(graph, NextPop) :
                InBounds(run.nodes, neighbours(graph, NextPop)[k][1])

====
